---- MODULE Spec2Model ----
(***************************************************************************)
(* Activity-detection engine of SurveillX: PersonTracker (tracker.py) and  *)
(* ActivityClassifier (classifier.py) with ActivityRules (rules.py).       *)
(*                                                                         *)
(* Number conventions.  Pixel coordinates and seconds are integers.        *)
(* Confidences, IoU values and keypoint confidences are carried in units   *)
(* of 1/10000 (0.45 is 4500), truncated.  Angles are carried in whole      *)
(* degrees, rounded to the nearest degree.  Euclidean distances are only   *)
(* compared, so they are carried squared wherever the code compares one    *)
(* distance against a threshold or against another distance.              *)
(***************************************************************************)
EXTENDS Integers, Sequences, FiniteSets, TLC

\* ------------------------------------------------------------------ bounds
\* number of classify calls in one run
MaxFrames == 3

\* ------------------------------------------------- generic helper operators
Min2(a, b) == IF a < b THEN a ELSE b

Max2(a, b) == IF a > b THEN a ELSE b

Abs(a) == IF a < 0 THEN -a ELSE a

\* len(deque) in place of sum(deque): the frames voted on, not the votes
SeqSumBool_len(s) == Len(s)

RECURSIVE SeqSumBool(_)
\* sum(deque of booleans)
SeqSumBool(s) == IF s = <<>> THEN 0 ELSE (IF Head(s) THEN 1 ELSE 0) + SeqSumBool(Tail(s))

\* deque().append(x) on a deque created without maxlen
DequeAppend_unbounded(s, x, maxlen) == Append(s, x)

\* deque(maxlen=n).appendleft(x): the newest entry in front, the last entry
\* dropped on overflow
DequeAppend_left(s, x, maxlen) ==
    IF maxlen = 0 THEN <<>>
    ELSE IF Len(s) >= maxlen THEN <<x>> \o SubSeq(s, 1, Len(s) - 1)
    ELSE <<x>> \o s

\* deque(maxlen=n).append(x): the oldest entry is dropped on overflow
DequeAppend(s, x, maxlen) ==
    IF maxlen = 0 THEN <<>>
    ELSE IF Len(s) >= maxlen THEN Append(Tail(s), x)
    ELSE Append(s, x)

\* floor of the square root
ISqrt(n) == CHOOSE r \in 0..3000 : r * r <= n /\ (r + 1) * (r + 1) > n

\* the ids of a dict whose keys were inserted in ascending order, in
\* iteration (insertion) order
RECURSIVE SortedIds(_)
SortedIds(S) ==
    IF S = {} THEN <<>>
    ELSE LET m == CHOOSE x \in S : \A y \in S : x <= y
         IN  <<m>> \o SortedIds(S \ {m})

\* ---------------------------------------------------- rules.py (metadata)
ACTIVITY_METADATA ==
    [normal    |-> [severity |-> "low",    is_abnormal |-> FALSE],
     running   |-> [severity |-> "medium", is_abnormal |-> TRUE],
     fighting  |-> [severity |-> "high",   is_abnormal |-> TRUE],
     falling   |-> [severity |-> "high",   is_abnormal |-> TRUE],
     loitering |-> [severity |-> "low",    is_abnormal |-> TRUE]]

ACTIVITY_PRIORITY ==
    [fighting |-> 4, falling |-> 3, running |-> 2, loitering |-> 1, normal |-> 0]

ActivityTypes == {"normal", "running", "fighting", "falling", "loitering"}

\* ActivityRules() with its default field values; confidences in 1/10000,
\* falling_aspect_ratio in tenths (1.3 is 13)
ActivityRules ==
    [falling_angle           |-> 75,
     falling_min_confidence  |-> 5000,
     falling_hip_offset      |-> 120,
     falling_hip_angle_req   |-> 60,
     falling_aspect_ratio    |-> 13,
     falling_persistence     |-> 4,
     falling_window          |-> 8,
     fighting_proximity      |-> 80,
     fighting_min_frames     |-> 3,
     running_velocity        |-> 2200,
     running_min_frames      |-> 6,
     loiter_duration         |-> 60,
     loiter_radius           |-> 50,
     activity_cooldown       |-> 5,
     global_confidence_floor |-> 4500,
     min_keypoint_confidence |-> 3000]

\* ------------------------------------------------ tracker.py (parameters)
max_history == 150

max_distance == 120

\* iou_threshold 0.2 in 1/10000
iou_threshold == 2000

stale_timeout == 3

\* --------------------------------------------- classifier.py (constants)
KP ==
    [nose |-> 0,
     left_shoulder |-> 5, right_shoulder |-> 6,
     left_elbow |-> 7, right_elbow |-> 8,
     left_wrist |-> 9, right_wrist |-> 10,
     left_hip |-> 11, right_hip |-> 12,
     left_knee |-> 13, right_knee |-> 14,
     left_ankle |-> 15, right_ankle |-> 16]

LSTM_SEQ_LEN == 30

LSTM_MIN_FRAMES == 15

\* 0.50 in 1/10000
LSTM_CONF_THRESHOLD == 5000

LSTM_TEMPORAL_VOTES == 2

FIGHTING_VOTES_MAXLEN == 8

RUNNING_VOTES_MAXLEN == 10

\* a rule check that returned None
None == [ok |-> FALSE, confidence |-> 0, description |-> ""]

Some(conf, desc) == [ok |-> TRUE, confidence |-> conf, description |-> desc]

\* PersonPose.bbox = None
NoBox == <<>>

\* ------------------------------------------------------ geometry utilities
\* _midpoint / PersonPose.midpoint: (kps[idx1] + kps[idx2]) / 2.0
\* (the poses fed to the model have even coordinate sums, so the halves
\* are exact)
_midpoint(kps, idx1, idx2) ==
    <<(kps[idx1][1] + kps[idx2][1]) \div 2, (kps[idx1][2] + kps[idx2][2]) \div 2>>

\* _distance squared: (p1[0]-p2[0])**2 + (p1[1]-p2[1])**2
DistSq(p1, p2) ==
    (p1[1] - p2[1]) * (p1[1] - p2[1]) + (p1[2] - p2[2]) * (p1[2] - p2[2])

\* _distance, truncated to whole pixels (used where distances are summed)
_distance(p1, p2) == ISqrt(DistSq(p1, p2))

\* _keypoint_valid with any() in place of all()
_keypoint_valid_any(confs, indices, min_conf) ==
    \E i \in indices : confs[i] >= min_conf

\* _keypoint_valid: all(confs[i] >= min_conf for i in indices)
_keypoint_valid(confs, indices, min_conf) ==
    \A i \in indices : confs[i] >= min_conf

\* tan((d + 0.5) degrees) * 1000 for d = 0..89, at index d + 1
TanHalfDeg ==
    <<9, 26, 44, 61, 79, 96, 114, 132, 149, 167, 185, 203,
      222, 240, 259, 277, 296, 315, 335, 354, 374, 394, 414,
      435, 456, 477, 499, 521, 543, 566, 589, 613, 637, 662,
      687, 713, 740, 767, 795, 824, 854, 885, 916, 949, 983,
      1018, 1054, 1091, 1130, 1171, 1213, 1257, 1303, 1351, 1402,
      1455, 1511, 1570, 1632, 1698, 1767, 1842, 1921, 2006, 2097,
      2194, 2300, 2414, 2539, 2675, 2824, 2989, 3172, 3376, 3606,
      3867, 4165, 4511, 4915, 5396, 5976, 6691, 7596, 8777, 10385,
      12706, 16350, 22904, 38188, 114589>>

RECURSIVE MarksPassed(_, _, _, _)
\* the number of half-degree marks d in 1..90 with
\* adx * 1000 >= TanHalfDeg[d] * ady, found by bisection of lo..hi (the
\* table is increasing; lo marks are known to be passed, marks above hi
\* are known not to be)
MarksPassed(adx, ady, lo, hi) ==
    IF lo = hi THEN lo
    ELSE LET mid == (lo + hi + 1) \div 2
         IN  IF adx * 1000 >= TanHalfDeg[mid] * ady
             THEN MarksPassed(adx, ady, mid, hi)
             ELSE MarksPassed(adx, ady, lo, mid - 1)

\* abs(math.degrees(math.atan2(abs(dx), abs(dy) + 1e-6))), to the nearest
\* degree: the number of half-degree marks the tangent abs(dx)/abs(dy) has
\* passed
TorsoAngle(dx, dy) ==
    IF dx = 0 THEN 0 ELSE MarksPassed(Abs(dx), Abs(dy), 0, 90)

\* tracker._iou in 1/10000, truncated.  inter / (union + 1e-6) lies just
\* below the exact quotient, hence the "- 1".
_iou(box_a, box_b) ==
    LET x1 == Max2(box_a[1], box_b[1])
        y1 == Max2(box_a[2], box_b[2])
        x2 == Min2(box_a[3], box_b[3])
        y2 == Min2(box_a[4], box_b[4])
        inter == Max2(0, x2 - x1) * Max2(0, y2 - y1)
        area_a == (box_a[3] - box_a[1]) * (box_a[4] - box_a[2])
        area_b == (box_b[3] - box_b[1]) * (box_b[4] - box_b[2])
    IN  IF inter = 0 THEN 0
        ELSE (inter * 10000 - 1) \div (area_a + area_b - inter)

\* dict[k] = v
Put(f, k, v) == (k :> v) @@ f

\* dict without the keys in S (dict.pop(k, None) for every k in S)
Drop(f, S) == [x \in (DOMAIN f) \ S |-> f[x]]

\* ------------------------------------------------------------ the tracker
\* The tracker object: tracks (id -> deque of <<x, y, t>>), last_seen,
\* last_bbox, _next_id, and the maxlen its deques are created with.  Ids are
\* inserted in ascending order and never re-inserted, so dict iteration
\* order is ascending id order.
PersonTracker ==
    [tracks |-> <<>>, last_seen |-> <<>>, last_bbox |-> <<>>, next_id |-> 0,
     max_history |-> max_history]

\* A matching score, kept as an exactly comparable value:
\*   k = -1  the initial best_score -1.0
\*   k =  0  score 0.0
\*   k =  1  1.0 - dist / max_distance with a = dist squared (in (0, 1])
\*   k =  2  iou_val + 1.0 with a = iou_val (at least 1.2)
ScoreOf(k, a) == [k |-> k, a |-> a]

\* score > best_score
ScoreGT(s, b) ==
    \/ s.k > b.k
    \/ s.k = b.k /\ s.k = 1 /\ s.a < b.a
    \/ s.k = b.k /\ s.k = 2 /\ s.a > b.a

\* the score of one track without the centroid fallback: IoU match or nothing
TrackScore_iou_only(tr, tid, c, bbox) ==
    IF /\ bbox # NoBox
       /\ tid \in DOMAIN tr.last_bbox
       /\ _iou(bbox, tr.last_bbox[tid]) >= iou_threshold
    THEN ScoreOf(2, _iou(bbox, tr.last_bbox[tid]))
    ELSE ScoreOf(0, 0)

\* the score of one track by the centroid distance alone, the box ignored
TrackScore_centroid_only(tr, tid, c, bbox) ==
    IF DistSq(c, <<tr.tracks[tid][Len(tr.tracks[tid])][1],
                   tr.tracks[tid][Len(tr.tracks[tid])][2]>>)
           < max_distance * max_distance
    THEN ScoreOf(1, DistSq(c, <<tr.tracks[tid][Len(tr.tracks[tid])][1],
                                tr.tracks[tid][Len(tr.tracks[tid])][2]>>))
    ELSE ScoreOf(0, 0)

\* the score of one track for one detection (tracker.py lines 95-108)
TrackScore(tr, tid, c, bbox) ==
    LET history == tr.tracks[tid]
        iou_hit == /\ bbox # NoBox
                   /\ tid \in DOMAIN tr.last_bbox
                   /\ _iou(bbox, tr.last_bbox[tid]) >= iou_threshold
        last_entry == history[Len(history)]
        dsq == DistSq(c, <<last_entry[1], last_entry[2]>>)
    IN  IF iou_hit THEN ScoreOf(2, _iou(bbox, tr.last_bbox[tid]))
        ELSE IF dsq < max_distance * max_distance THEN ScoreOf(1, dsq)
        ELSE ScoreOf(0, 0)

RECURSIVE BestTrack_last_tie(_, _, _, _, _, _)
\* the inner loop with score >= best_score: of equal scores the track
\* iterated last wins
BestTrack_last_tie(tr, ids, used, c, bbox, best) ==
    IF ids = <<>> THEN best
    ELSE IF Head(ids) \in used \/ tr.tracks[Head(ids)] = <<>>
         THEN BestTrack_last_tie(tr, Tail(ids), used, c, bbox, best)
         ELSE IF ~ScoreGT(best.score, TrackScore(tr, Head(ids), c, bbox))
              THEN BestTrack_last_tie(tr, Tail(ids), used, c, bbox,
                                      [tid |-> Head(ids),
                                       score |-> TrackScore(tr, Head(ids), c, bbox)])
              ELSE BestTrack_last_tie(tr, Tail(ids), used, c, bbox, best)

RECURSIVE BestTrack(_, _, _, _, _, _)
\* the inner loop over self.tracks.items(): best = [tid, score], tid = -1
\* stands for best_tid = None
BestTrack(tr, ids, used, c, bbox, best) ==
    IF ids = <<>> THEN best
    ELSE LET tid == Head(ids)
             skip == tid \in used \/ tr.tracks[tid] = <<>>
             score == TrackScore(tr, tid, c, bbox)
         IN  IF skip THEN BestTrack(tr, Tail(ids), used, c, bbox, best)
             ELSE IF ScoreGT(score, best.score)
                  THEN BestTrack(tr, Tail(ids), used, c, bbox,
                                 [tid |-> tid, score |-> score])
                  ELSE BestTrack(tr, Tail(ids), used, c, bbox, best)

\* matched[(cx, cy)] = tid on an insertion-ordered dict, kept as a sequence
\* of <<centroid, tid>>: an existing key keeps its position
RECURSIVE MatchedPut(_, _, _)
MatchedPut(m, c, tid) ==
    IF m = <<>> THEN <<<<c, tid>>>>
    ELSE IF Head(m)[1] = c THEN <<<<c, tid>>>> \o Tail(m)
    ELSE <<Head(m)>> \o MatchedPut(Tail(m), c, tid)

\* Assign on a tracker whose histories are deques without maxlen: every
\* sample is kept
Assign_keep_all(st, c, bbox, timestamp, best_tid, fresh) ==
    [tr |-> [tracks |-> Put(st.tr.tracks, best_tid,
                            Append(IF best_tid \in DOMAIN st.tr.tracks
                                   THEN st.tr.tracks[best_tid] ELSE <<>>,
                                   <<c[1], c[2], timestamp>>)),
             last_seen |-> Put(st.tr.last_seen, best_tid, timestamp),
             last_bbox |-> IF bbox # NoBox THEN Put(st.tr.last_bbox, best_tid, bbox)
                           ELSE st.tr.last_bbox,
             next_id |-> IF fresh THEN st.tr.next_id + 1 ELSE st.tr.next_id,
             max_history |-> st.tr.max_history],
     matched |-> MatchedPut(st.matched, c, best_tid),
     used |-> st.used \cup {best_tid},
     assigned |-> Append(st.assigned, best_tid)]

\* the detection is given track best_tid, a new id when fresh
\* (tracker.py lines 110-122)
Assign(st, c, bbox, timestamp, best_tid, fresh) ==
    [tr |-> [tracks |-> Put(st.tr.tracks, best_tid,
                            DequeAppend(IF best_tid \in DOMAIN st.tr.tracks
                                        THEN st.tr.tracks[best_tid] ELSE <<>>,
                                        <<c[1], c[2], timestamp>>,
                                        st.tr.max_history)),
             last_seen |-> Put(st.tr.last_seen, best_tid, timestamp),
             last_bbox |-> IF bbox # NoBox THEN Put(st.tr.last_bbox, best_tid, bbox)
                           ELSE st.tr.last_bbox,
             next_id |-> IF fresh THEN st.tr.next_id + 1 ELSE st.tr.next_id,
             max_history |-> st.tr.max_history],
     matched |-> MatchedPut(st.matched, c, best_tid),
     used |-> st.used \cup {best_tid},
     assigned |-> Append(st.assigned, best_tid)]

\* a new track taking the smallest id that no live track holds
Matched_reuse_free(st, c, bbox, timestamp, best) ==
    IF best.tid = -1 \/ best.score.k <= 0
    THEN Assign(st, c, bbox, timestamp,
                CHOOSE n \in 0..st.tr.next_id :
                    /\ n \notin DOMAIN st.tr.tracks
                    /\ \A m \in 0..(n - 1) : m \in DOMAIN st.tr.tracks,
                TRUE)
    ELSE Assign(st, c, bbox, timestamp, best.tid, FALSE)

\* if best_tid is None or best_score <= 0: a new track
Matched(st, c, bbox, timestamp, best) ==
    IF best.tid = -1 \/ best.score.k <= 0
    THEN Assign(st, c, bbox, timestamp, st.tr.next_id, TRUE)
    ELSE Assign(st, c, bbox, timestamp, best.tid, FALSE)

\* the body of the loop over the detections, for one detection
MatchOne(st, c, bbox, timestamp) ==
    Matched(st, c, bbox, timestamp,
            BestTrack(st.tr, SortedIds(DOMAIN st.tr.tracks), st.used, c, bbox,
                      [tid |-> -1, score |-> ScoreOf(-1, 0)]))

RECURSIVE MatchAll(_, _, _, _, _)
MatchAll(st, centroids, bboxes, timestamp, idx) ==
    IF idx > Len(centroids) THEN st
    ELSE MatchAll(MatchOne(st, centroids[idx],
                           IF idx <= Len(bboxes) THEN bboxes[idx] ELSE NoBox,
                           timestamp),
                  centroids, bboxes, timestamp, idx + 1)

\* a purge that pops the history of a stale track and leaves its last-seen
\* time and its last box behind
PurgeStale_history_only(tr, timestamp) ==
    [tr EXCEPT !.tracks = Drop(tr.tracks,
                               {tid \in DOMAIN tr.last_seen :
                                    timestamp - tr.last_seen[tid] > stale_timeout})]

\* the purge without its last line: the boxes of purged tracks stay
PurgeStale_keep_boxes(tr, timestamp) ==
    LET stale == {tid \in DOMAIN tr.last_seen :
                      timestamp - tr.last_seen[tid] > stale_timeout}
    IN  [tracks |-> Drop(tr.tracks, stale),
         last_seen |-> Drop(tr.last_seen, stale),
         last_bbox |-> tr.last_bbox,
         next_id |-> tr.next_id,
         max_history |-> tr.max_history]

\* the stale purge at the end of update
PurgeStale(tr, timestamp) ==
    LET stale == {tid \in DOMAIN tr.last_seen :
                      timestamp - tr.last_seen[tid] > stale_timeout}
    IN  [tracks |-> Drop(tr.tracks, stale),
         last_seen |-> Drop(tr.last_seen, stale),
         last_bbox |-> Drop(tr.last_bbox, stale),
         next_id |-> tr.next_id,
         max_history |-> tr.max_history]

\* the end of update: purge, return matched
Purged(st, timestamp) ==
    [tr |-> PurgeStale(st.tr, timestamp), matched |-> st.matched,
     assigned |-> st.assigned]

\* PersonTracker.update: the tracker after the call and the returned dict
update(tr, centroids, timestamp, bboxes) ==
    Purged(MatchAll([tr |-> tr, matched |-> <<>>, used |-> {}, assigned |-> <<>>],
                    centroids, bboxes, timestamp, 1),
           timestamp)

\* get_velocity without the n_frames requirement: the velocity over the
\* samples there are, from two samples on
get_velocity_from_two_samples(tr, track_id, n_frames) ==
    IF track_id \notin DOMAIN tr.tracks THEN -1
    ELSE LET history == tr.tracks[track_id]
             n == Len(history)
         IN  IF n < 2 THEN -1
             ELSE LET recent == SubSeq(history, Max2(1, n - n_frames + 1), n)
                      Step[k \in 1..Len(recent)] ==
                          IF k = 1 THEN <<0, 0>>
                          ELSE <<Step[k - 1][1] +
                                   _distance(<<recent[k][1], recent[k][2]>>,
                                             <<recent[k - 1][1], recent[k - 1][2]>>),
                                 Step[k - 1][2] + (recent[k][3] - recent[k - 1][3])>>
                      total_dist == Step[Len(recent)][1]
                      total_time == Step[Len(recent)][2]
                  IN  IF 20 * total_time < 1 THEN -1
                      ELSE total_dist \div total_time

\* PersonTracker.get_velocity in px/s, truncated; -1 stands for None
get_velocity(tr, track_id, n_frames) ==
    IF track_id \notin DOMAIN tr.tracks THEN -1
    ELSE LET history == tr.tracks[track_id]
             n == Len(history)
         IN  IF n = 0 \/ n < Max2(2, n_frames) THEN -1
             ELSE LET recent == SubSeq(history, n - n_frames + 1, n)
                      Step[k \in 1..Len(recent)] ==
                          IF k = 1 THEN <<0, 0>>
                          ELSE <<Step[k - 1][1] +
                                   _distance(<<recent[k][1], recent[k][2]>>,
                                             <<recent[k - 1][1], recent[k - 1][2]>>),
                                 Step[k - 1][2] + (recent[k][3] - recent[k - 1][3])>>
                      total_dist == Step[Len(recent)][1]
                      total_time == Step[Len(recent)][2]
                  IN  \* total_time < 0.05
                      IF 20 * total_time < 1 THEN -1
                      ELSE total_dist \div total_time

\* PersonTracker.get_track_history
get_track_history(tr, track_id) ==
    IF track_id \in DOMAIN tr.tracks THEN tr.tracks[track_id] ELSE <<>>

\* PersonTracker.get_track_duration
get_track_duration(tr, track_id) ==
    IF track_id \notin DOMAIN tr.tracks THEN 0
    ELSE LET history == tr.tracks[track_id]
         IN  IF Len(history) < 2 THEN 0
             ELSE history[Len(history)][3] - history[1][3]

\* ------------------------------------------------------------- rule checks
\* w / h < falling_aspect_ratio on a box with h > 0 (ratio in tenths)
AspectVeto(rules, bbox) ==
    /\ bbox # NoBox
    /\ LET w == bbox[3] - bbox[1]
           h == bbox[4] - bbox[2]
       IN  h > 0 /\ 10 * w < rules.falling_aspect_ratio * h

\* ActivityClassifier._check_falling
_check_falling(rules, person) ==
    LET kps == person.keypoints
        confs == person.confidences
        required == {KP.left_shoulder, KP.right_shoulder, KP.left_hip,
                     KP.right_hip, KP.left_knee, KP.right_knee}
        shoulder_mid == _midpoint(kps, KP.left_shoulder, KP.right_shoulder)
        hip_mid == _midpoint(kps, KP.left_hip, KP.right_hip)
        knee_mid == _midpoint(kps, KP.left_knee, KP.right_knee)
        dx == hip_mid[1] - shoulder_mid[1]
        dy == hip_mid[2] - shoulder_mid[2]
        angle == TorsoAngle(dx, dy)
        \* min(0.90, (angle - falling_angle) / (90.0 - falling_angle))
        conf == Min2(9000, ((angle - rules.falling_angle) * 10000)
                               \div (90 - rules.falling_angle))
    IN  IF ~_keypoint_valid(confs, required, rules.min_keypoint_confidence)
        THEN None
        ELSE IF angle > rules.falling_angle
        THEN IF conf < rules.falling_min_confidence THEN None
             ELSE IF AspectVeto(rules, person.bbox) THEN None
             ELSE Some(conf, "Person appears to have fallen (body angle)")
        ELSE IF /\ angle > rules.falling_hip_angle_req
                /\ hip_mid[2] > knee_mid[2] + rules.falling_hip_offset
        THEN IF AspectVeto(rules, person.bbox) THEN None
             ELSE Some(5500, "Person on ground (hip below knees, body tilted)")
        ELSE None

\* the (i, j) index pairs of _check_fighting's nested loops, in loop order
\* (1-based)
PairSeq(n) ==
    LET RowFrom[i \in 1..(n + 1)] ==
            IF i > n THEN <<>>
            ELSE [k \in 1..(n - i) |-> <<i, i + k>>] \o RowFrom[i + 1]
    IN  RowFrom[1]

\* d < fighting_proximity * factor, factor in tenths, d given squared
CloserThan(dsq, proximity, tenths) ==
    100 * dsq < (proximity * tenths) * (proximity * tenths)

\* the wrist-to-torso test of one pair (classifier.py lines 452-467)
WristBodyClose(rules, pi, pj) ==
    LET torso_j == _midpoint(pj.keypoints, KP.left_shoulder, KP.right_shoulder)
        torso_i == _midpoint(pi.keypoints, KP.left_shoulder, KP.right_shoulder)
    IN  \E wrist_idx \in {KP.left_wrist, KP.right_wrist} :
            \/ /\ pi.confidences[wrist_idx] > 3000
               /\ CloserThan(DistSq(pi.keypoints[wrist_idx], torso_j),
                             rules.fighting_proximity, 8)
            \/ /\ pj.confidences[wrist_idx] > 3000
               /\ CloserThan(DistSq(pj.keypoints[wrist_idx], torso_i),
                             rules.fighting_proximity, 8)

RECURSIVE FightingPairs(_, _, _, _)
\* The loop over the pairs.  wbc is the local variable wrist_body_close,
\* which is assigned only for a pair with two boxes and keeps its value
\* across iterations: "unset", "true" or "false".  Reading it while unset
\* raises inside the outer try, whose handler makes the check return None.
FightingPairs(rules, persons, pairs, wbc) ==
    IF pairs = <<>> THEN None
    ELSE LET pi == persons[Head(pairs)[1]]
             pj == persons[Head(pairs)[2]]
             hip_i == _midpoint(pi.keypoints, KP.left_hip, KP.right_hip)
             hip_j == _midpoint(pj.keypoints, KP.left_hip, KP.right_hip)
             dsq == DistSq(hip_i, hip_j)
             boxes == pi.bbox # NoBox /\ pj.bbox # NoBox
             overlap == IF boxes THEN _iou(pi.bbox, pj.bbox) ELSE 0
             wbc2 == IF boxes
                     THEN (IF WristBodyClose(rules, pi, pj) THEN "true" ELSE "false")
                     ELSE wbc
             base_conf == 6000 + (overlap * 3) \div 10
                               + (IF wbc2 = "true" THEN 1500 ELSE 0)
         IN  IF dsq > rules.fighting_proximity * rules.fighting_proximity
             THEN FightingPairs(rules, persons, Tail(pairs), wbc)
             ELSE IF boxes /\ overlap >= 4000
             THEN Some(Min2(9000, base_conf), "Physical altercation detected (overlap)")
             ELSE IF boxes /\ overlap >= 2000 /\ wbc2 = "true"
             THEN Some(Min2(8500, 5500 + overlap),
                       "Physical altercation detected (strike contact)")
             ELSE IF CloserThan(dsq, rules.fighting_proximity, 3)
             THEN (IF wbc2 = "unset" THEN None
                   ELSE IF wbc2 = "true"
                   THEN Some(6000, "Potential altercation (very close)")
                   ELSE FightingPairs(rules, persons, Tail(pairs), wbc2))
             ELSE FightingPairs(rules, persons, Tail(pairs), wbc2)

\* ActivityClassifier._check_fighting
_check_fighting(rules, persons) ==
    IF Len(persons) < 2 THEN None
    ELSE FightingPairs(rules, persons, PairSeq(Len(persons)), "unset")

\* _angle_deg(a, b, c) < 150: cos(angle) > cos(150 deg), that is the dot
\* product is non-negative or 4 dot^2 < 3 |ba|^2 |bc|^2
AngleBelow150(a, b, c) ==
    LET bax == a[1] - b[1]
        bay == a[2] - b[2]
        bcx == c[1] - b[1]
        bcy == c[2] - b[2]
        dot == bax * bcx + bay * bcy
        na == bax * bax + bay * bay
        nc == bcx * bcx + bcy * bcy
    IN  dot >= 0 \/ 4 * dot * dot < 3 * na * nc

\* ActivityClassifier._check_running
_check_running(rules, tr, track_id, persons, person_idx) ==
    LET velocity == get_velocity(tr, track_id, 5)
        \* min(0.85, velocity / (running_velocity * 2))
        conf == Min2(8500, (velocity * 5000) \div rules.running_velocity)
        legs == {<<KP.left_hip, KP.left_knee, KP.left_ankle>>,
                 <<KP.right_hip, KP.right_knee, KP.right_ankle>>}
        has_person == person_idx <= Len(persons)
        valid == IF has_person
                 THEN {l \in legs : _keypoint_valid(persons[person_idx].confidences,
                                                    {l[1], l[2], l[3]}, 3000)}
                 ELSE {}
        \* 0 < max_knee_angle < 150: some leg is valid (its angle is never
        \* exactly 0 because of the 1e-6 in the denominator) and every valid
        \* leg is below 150 degrees
        walking == /\ valid # {}
                   /\ \A l \in valid :
                        AngleBelow150(persons[person_idx].keypoints[l[1]],
                                      persons[person_idx].keypoints[l[2]],
                                      persons[person_idx].keypoints[l[3]])
    IN  IF velocity = -1 THEN None
        ELSE IF velocity > rules.running_velocity
        THEN Some(IF walking THEN conf \div 2 ELSE conf, "Person running detected (speed)")
        ELSE None

\* ActivityClassifier._check_loitering
_check_loitering(rules, tr, track_id) ==
    LET duration == get_track_duration(tr, track_id)
        history == get_track_history(tr, track_id)
        xs == {history[k][1] : k \in 1..Len(history)}
        ys == {history[k][2] : k \in 1..Len(history)}
        SetMax(S) == CHOOSE x \in S : \A y \in S : y <= x
        SetMin(S) == CHOOSE x \in S : \A y \in S : x <= y
        spread == Max2(SetMax(xs) - SetMin(xs), SetMax(ys) - SetMin(ys))
    IN  IF duration < rules.loiter_duration THEN None
        ELSE IF Len(history) < 10 THEN None
        ELSE IF spread < rules.loiter_radius * 3
        THEN Some(Min2(8000, (duration * 5000) \div rules.loiter_duration),
                  "Loitering detected (in same area)")
        ELSE None

\* ---------------------------------------------------------- the classifier
\* ActivityClassifier.__init__: the fields of a new instance.  lstm_model
\* tells whether _load_lstm_model found and loaded a model.  The voting
\* dicts are defaultdicts: reading a missing key inserts an empty deque.
ActivityClassifier(rules, lstm_model) ==
    [rules |-> rules,
     tracker |-> PersonTracker,
     _falling_votes |-> <<>>,
     _fighting_votes |-> <<>>,
     _running_votes |-> <<>>,
     _cooldowns |-> <<>>,
     _prev_keypoints |-> <<>>,
     _prev_time |-> 0,
     _lstm_model |-> lstm_model,
     _lstm_buffer |-> <<>>,
     _lstm_votes |-> <<>>]

\* round(confidence, 2), in 1/10000
Round2(confidence) == ((confidence + 50) \div 100) * 100

\* _make_result with the fallback entry ACTIVITY_METADATA['normal'] used for
\* every type
_make_result_fallback_metadata(activity_type, confidence, description) ==
    LET meta == ACTIVITY_METADATA["normal"]
    IN  [type |-> activity_type,
         is_abnormal |-> meta.is_abnormal,
         severity |-> meta.severity,
         confidence |-> Round2(confidence),
         description |-> description]

\* ActivityClassifier._make_result
_make_result(activity_type, confidence, description) ==
    LET meta == ACTIVITY_METADATA[activity_type]
    IN  [type |-> activity_type,
         is_abnormal |-> meta.is_abnormal,
         severity |-> meta.severity,
         confidence |-> Round2(confidence),
         description |-> description]

\* _is_on_cooldown reading the default 0 instead of the recorded time
_is_on_cooldown_unrecorded(self, activity_type, now) ==
    (now - 0) < self.rules.activity_cooldown

\* _is_on_cooldown with a type that was never emitted counted as free
_is_on_cooldown_unfired_free(self, activity_type, now) ==
    /\ activity_type \in DOMAIN self._cooldowns
    /\ (now - self._cooldowns[activity_type]) < self.rules.activity_cooldown

\* ActivityClassifier._is_on_cooldown
_is_on_cooldown(self, activity_type, now) ==
    LET last == IF activity_type \in DOMAIN self._cooldowns
                THEN self._cooldowns[activity_type] ELSE 0
    IN  (now - last) < self.rules.activity_cooldown

\* now = timestamp or time.time(): a timestamp of 0 (or None) is falsy
FrameTime(timestamp, wall) == IF timestamp # 0 THEN timestamp ELSE wall

\* defaultdict read: the deque of a key, empty when the key is new
VotesOf(votes, tid) == IF tid \in DOMAIN votes THEN votes[tid] ELSE <<>>

\* the track id classify uses for person idx in the falling loop:
\* list(track_map.values())[idx] if idx < len(track_map) else idx
\* (idx is 1-based here, the fallback is the 0-based index)
FallingTid(track_map, idx) ==
    IF idx <= Len(track_map) THEN track_map[idx][2] ELSE idx - 1

\* the vote of one person is pushed and counted: st = [votes, activities]
FallingVote(rules, st, tid, is_falling, buf) ==
    [votes |-> Put(st.votes, tid, buf),
     activities |->
         IF SeqSumBool(buf) >= rules.falling_persistence
         THEN Append(st.activities,
                     <<"falling",
                       IF is_falling.ok THEN is_falling.confidence ELSE 5500,
                       IF is_falling.ok THEN is_falling.description
                       ELSE "Person appears to have fallen">>)
         ELSE st.activities]

\* one round of the falling loop
FallingRound(rules, st, tid, is_falling) ==
    FallingVote(rules, st, tid, is_falling,
                DequeAppend(VotesOf(st.votes, tid), is_falling.ok,
                            rules.falling_window))

RECURSIVE FallingLoop(_, _, _, _, _)
\* 1. FALLING
FallingLoop(rules, persons, track_map, idx, st) ==
    IF idx > Len(persons) THEN st
    ELSE FallingLoop(rules, persons, track_map, idx + 1,
                     FallingRound(rules, st, FallingTid(track_map, idx),
                                  _check_falling(rules, persons[idx])))

\* the vote of one track is pushed and counted
RunningVote(rules, st, tid, is_running, buf) ==
    [votes |-> Put(st.votes, tid, buf),
     activities |->
         IF SeqSumBool(buf) >= rules.running_min_frames
         THEN Append(st.activities,
                     <<"running",
                       IF is_running.ok THEN is_running.confidence ELSE 6000,
                       IF is_running.ok THEN is_running.description
                       ELSE "Person running detected">>)
         ELSE st.activities]

\* one round of the running loop
RunningRound(rules, st, tid, is_running) ==
    RunningVote(rules, st, tid, is_running,
                DequeAppend(VotesOf(st.votes, tid), is_running.ok,
                            RUNNING_VOTES_MAXLEN))

RECURSIVE RunningLoop(_, _, _, _, _, _)
\* 3. RUNNING: one round per entry of track_map
RunningLoop(rules, tr, persons, track_map, idx, st) ==
    IF idx > Len(track_map) THEN st
    ELSE RunningLoop(rules, tr, persons, track_map, idx + 1,
                     RunningRound(rules, st, track_map[idx][2],
                                  _check_running(rules, tr, track_map[idx][2],
                                                 persons, idx)))

RECURSIVE LoiteringLoop(_, _, _, _, _)
\* 4. LOITERING
LoiteringLoop(rules, tr, track_map, idx, activities) ==
    IF idx > Len(track_map) THEN activities
    ELSE LET loiter == _check_loitering(rules, tr, track_map[idx][2])
         IN  LoiteringLoop(rules, tr, track_map, idx + 1,
                 IF loiter.ok
                 THEN Append(activities,
                             <<"loitering", loiter.confidence, loiter.description>>)
                 ELSE activities)

RECURSIVE PrevKeypoints(_, _, _, _)
\* self._prev_keypoints[tid] = persons[idx].keypoints.copy()
PrevKeypoints(prev, persons, track_map, idx) ==
    IF idx > Len(track_map) THEN prev
    ELSE PrevKeypoints(IF idx <= Len(persons)
                       THEN Put(prev, track_map[idx][2], persons[idx].keypoints)
                       ELSE prev,
                       persons, track_map, idx + 1)

\* the first entry of activities.sort(key=priority) without reverse=True:
\* the earliest entry among those of lowest priority
TopActivity_ascending(activities) ==
    LET best == CHOOSE i \in 1..Len(activities) :
                    /\ \A j \in 1..Len(activities) :
                           ACTIVITY_PRIORITY[activities[j][1]]
                               >= ACTIVITY_PRIORITY[activities[i][1]]
                    /\ \A j \in 1..(i - 1) :
                           ACTIVITY_PRIORITY[activities[j][1]]
                               > ACTIVITY_PRIORITY[activities[i][1]]
    IN  activities[best]

\* the first entry after an unstable descending sort: the latest entry among
\* those of highest priority
TopActivity_latest(activities) ==
    LET best == CHOOSE i \in 1..Len(activities) :
                    /\ \A j \in 1..Len(activities) :
                           ACTIVITY_PRIORITY[activities[j][1]]
                               <= ACTIVITY_PRIORITY[activities[i][1]]
                    /\ \A j \in (i + 1)..Len(activities) :
                           ACTIVITY_PRIORITY[activities[j][1]]
                               < ACTIVITY_PRIORITY[activities[i][1]]
    IN  activities[best]

\* the first entry of activities.sort(key=priority, reverse=True): the sort
\* is stable, so it is the earliest entry among those of highest priority
TopActivity(activities) ==
    LET best == CHOOSE i \in 1..Len(activities) :
                    /\ \A j \in 1..Len(activities) :
                           ACTIVITY_PRIORITY[activities[j][1]]
                               <= ACTIVITY_PRIORITY[activities[i][1]]
                    /\ \A j \in 1..(i - 1) :
                           ACTIVITY_PRIORITY[activities[j][1]]
                               < ACTIVITY_PRIORITY[activities[i][1]]
    IN  activities[best]

\* the frame buffered whether or not a model is loaded
LstmBuffer_without_model(self, persons, frame_no) ==
    IF Len(persons) = 0 THEN self._lstm_buffer
    ELSE DequeAppend(self._lstm_buffer, frame_no, LSTM_SEQ_LEN)

\* _predict_lstm up to the model call: the frame buffer after the call and
\* whether the model is queried.  The keypoints handed over by PersonPose
\* are (17, 2), so _normalise_keypoints_for_lstm returns zeros(51); the
\* buffer entry is kept as the ordinal of the frame it was taken from.
LstmBuffer(self, persons, frame_no) ==
    IF ~self._lstm_model \/ Len(persons) = 0 THEN self._lstm_buffer
    ELSE DequeAppend(self._lstm_buffer, frame_no, LSTM_SEQ_LEN)

LstmQueried(self, persons) ==
    /\ self._lstm_model
    /\ Len(persons) > 0
    /\ Len(LstmBuffer(self, persons, 0)) >= LSTM_MIN_FRAMES

\* frames padded to LSTM_SEQ_LEN by repeating the first frame
LstmSequence_first_repeated(buffer) ==
    [k \in 1..LSTM_SEQ_LEN |-> IF k <= Len(buffer) THEN buffer[k] ELSE buffer[1]]

\* frames padded to LSTM_SEQ_LEN by repeating the last frame
LstmSequence(buffer) ==
    [k \in 1..LSTM_SEQ_LEN |-> IF k <= Len(buffer) THEN buffer[k]
                               ELSE buffer[Len(buffer)]]

\* self._lstm_votes after step 0.  pred is what the model returns when it
\* is queried: [class, conf].
LstmVotes(self, persons, pred) ==
    IF LstmQueried(self, persons)
    THEN DequeAppend(self._lstm_votes, pred.class, LSTM_TEMPORAL_VOTES)
    ELSE self._lstm_votes

\* the candidate of step 0 with any(...) in place of all(...): one recent
\* vote for the label is enough
LstmCandidate_any_vote(self, persons, pred, lstm_votes) ==
    IF /\ LstmQueried(self, persons)
       /\ Len(lstm_votes) >= LSTM_TEMPORAL_VOTES
       /\ pred.class # "normal"
       /\ pred.conf >= LSTM_CONF_THRESHOLD
       /\ \E k \in 1..Len(lstm_votes) : lstm_votes[k] = pred.class
    THEN <<<<pred.class, pred.conf, "LSTM detected">>>>
    ELSE <<>>

\* the candidate of step 0 without the agreement of the recent votes
LstmCandidate_single_vote(self, persons, pred, lstm_votes) ==
    IF /\ LstmQueried(self, persons)
       /\ pred.class # "normal"
       /\ pred.conf >= LSTM_CONF_THRESHOLD
    THEN <<<<pred.class, pred.conf, "LSTM detected">>>>
    ELSE <<>>

\* 0. LSTM: the candidate list after step 0
LstmCandidate(self, persons, pred, lstm_votes) ==
    IF /\ LstmQueried(self, persons)
       /\ Len(lstm_votes) >= LSTM_TEMPORAL_VOTES
       /\ pred.class # "normal"
       /\ pred.conf >= LSTM_CONF_THRESHOLD
       /\ \A k \in 1..Len(lstm_votes) : lstm_votes[k] = pred.class
    THEN <<<<pred.class, pred.conf, "LSTM detected">>>>
    ELSE <<>>

\* self._fighting_votes after step 2
FightingVotes(self, persons, is_fighting) ==
    IF Len(persons) >= 2
    THEN DequeAppend(self._fighting_votes, is_fighting.ok, FIGHTING_VOTES_MAXLEN)
    ELSE self._fighting_votes

\* 2. FIGHTING: the candidate list after step 2
FightingCandidate(rules, persons, is_fighting, fight_votes, activities) ==
    IF Len(persons) >= 2 /\ SeqSumBool(fight_votes) >= rules.fighting_min_frames
    THEN Append(activities,
                <<"fighting",
                  IF is_fighting.ok THEN is_fighting.confidence ELSE 7000,
                  IF is_fighting.ok THEN is_fighting.description
                  ELSE "Physical altercation detected">>)
    ELSE activities

\* steps 4 and after: the candidate list and the instance before the filters
LoiteringStep(self, persons, now, track_map, tr, frame_no, lstm_votes, falling_votes, fight_votes, run) ==
    [activities |-> LoiteringLoop(self.rules, tr, track_map, 1, run.activities),
     self |-> [self EXCEPT
                 !.tracker = tr,
                 !._falling_votes = falling_votes,
                 !._fighting_votes = fight_votes,
                 !._running_votes = run.votes,
                 !._prev_keypoints =
                     PrevKeypoints(self._prev_keypoints, persons, track_map, 1),
                 !._prev_time = now,
                 !._lstm_buffer = LstmBuffer(self, persons, frame_no),
                 !._lstm_votes = lstm_votes]]

\* step 3 and after
RunningStep(self, persons, now, track_map, tr, frame_no, lstm_votes, fall, fight_votes, is_fighting) ==
    LoiteringStep(self, persons, now, track_map, tr, frame_no, lstm_votes,
                  fall.votes, fight_votes,
                  RunningLoop(self.rules, tr, persons, track_map, 1,
                              [votes |-> self._running_votes,
                               activities |->
                                   FightingCandidate(self.rules, persons, is_fighting,
                                                     fight_votes, fall.activities)]))

\* step 2 and after
FightingStep(self, persons, now, track_map, tr, frame_no, lstm_votes, fall, is_fighting) ==
    RunningStep(self, persons, now, track_map, tr, frame_no, lstm_votes, fall,
                FightingVotes(self, persons, is_fighting), is_fighting)

\* step 1 and after
FallingStep(self, persons, now, track_map, tr, frame_no, lstm_votes, lstm_act) ==
    FightingStep(self, persons, now, track_map, tr, frame_no, lstm_votes,
                 FallingLoop(self.rules, persons, track_map, 1,
                             [votes |-> self._falling_votes, activities |-> lstm_act]),
                 IF Len(persons) >= 2 THEN _check_fighting(self.rules, persons)
                 ELSE None)

\* step 0 and after
LstmStep(self, persons, now, track_map, tr, pred, frame_no, lstm_votes) ==
    FallingStep(self, persons, now, track_map, tr, frame_no, lstm_votes,
                LstmCandidate(self, persons, pred, lstm_votes))

\* the candidates after steps 0-4 and the state they leave behind
Candidates(self, persons, now, track_map, tr, pred, frame_no) ==
    LstmStep(self, persons, now, track_map, tr, pred, frame_no,
             LstmVotes(self, persons, pred))

\* the cooldown filter alone, without the confidence floor
Surviving_no_floor(self, activities, now) ==
    SelectSeq(activities, LAMBDA a : ~_is_on_cooldown(self, a[1], now))

\* the two filters of classify: confidence floor, then cooldown
Surviving(self, activities, now) ==
    SelectSeq(SelectSeq(activities,
                        LAMBDA a : a[2] >= self.rules.global_confidence_floor),
              LAMBDA a : ~_is_on_cooldown(self, a[1], now))

RECURSIVE SetCooldown_every_survivor(_, _, _, _)
\* the cooldown written for every surviving candidate, not only the winner
SetCooldown_every_survivor(cooldowns, surviving, top, now) ==
    IF surviving = <<>> THEN cooldowns
    ELSE SetCooldown_every_survivor(Put(cooldowns, surviving[1][1], now),
                                    Tail(surviving), top, now)

\* self._cooldowns[top[0]] = now, where top is the winner among the
\* surviving candidates
SetCooldown(cooldowns, surviving, top, now) == Put(cooldowns, top[1], now)

\* the return of classify when a candidate survived: top wins, its cooldown
\* is set
Winner(cand, surviving, top, now, track_map) ==
    [self |-> [cand.self EXCEPT
                 !._cooldowns = SetCooldown(cand.self._cooldowns, surviving, top, now)],
     result |-> _make_result(top[1], top[2], top[3]),
     track_map |-> track_map, activities |-> cand.activities]

\* if activities: ... return the winner; else return normal
Emit(cand, surviving, now, track_map) ==
    IF surviving # <<>>
    THEN Winner(cand, surviving, TopActivity(surviving), now, track_map)
    ELSE [self |-> cand.self, result |-> _make_result("normal", 0, ""),
          track_map |-> track_map, activities |-> cand.activities]

\* the two filters, then the return
Arbitrate(cand, now, track_map) ==
    Emit(cand, Surviving(cand.self, cand.activities, now), now, track_map)

\* classify after tracker.update returned up = [tr, matched]
Tracked(self, persons, now, up, pred, frame_no) ==
    Arbitrate(Candidates(self, persons, now, up.matched, up.tr, pred, frame_no),
              now, up.matched)

\* the centroids classify hands to the tracker: the hip midpoints
Centroids(persons) ==
    [i \in 1..Len(persons) |->
        _midpoint(persons[i].keypoints, KP.left_hip, KP.right_hip)]

\* the boxes classify hands to the tracker
Bboxes(persons) == [i \in 1..Len(persons) |-> persons[i].bbox]

\* classify without the early return for an empty list: the empty frame
\* goes through the tracker update and the steps after it
classify_no_early_return(self, persons, timestamp, wall, pred, frame_no) ==
    Tracked(self, persons, FrameTime(timestamp, wall),
            update(self.tracker, Centroids(persons),
                   FrameTime(timestamp, wall), Bboxes(persons)),
            pred, frame_no)

\* ActivityClassifier.classify: the instance after the call, the returned
\* ActivityResult, and (for inspection) the tracker's mapping and the
\* candidate list before the filters
classify(self, persons, timestamp, wall, pred, frame_no) ==
    IF Len(persons) = 0
    THEN [self |-> self, result |-> _make_result("normal", 0, ""),
          track_map |-> <<>>, activities |-> <<>>]
    ELSE Tracked(self, persons, FrameTime(timestamp, wall),
                 update(self.tracker, Centroids(persons),
                        FrameTime(timestamp, wall), Bboxes(persons)),
                 pred, frame_no)

\* ------------------------------------------------------------------ inputs
\* keypoint array from a list of 17 points (index 0..16)
Keypoints(points) == [i \in 0..16 |-> points[i + 1]]

\* a confidence vector with the same value at every keypoint
AllConf(c) == [i \in 0..16 |-> c]

PersonPose(keypoints, confidences, bbox) ==
    [keypoints |-> keypoints, confidences |-> confidences, bbox |-> bbox]

\* tests/test_classifier.py _make_standing_person(x_offset)
standing_person(x) ==
    PersonPose(
        Keypoints(<< <<300 + x, 100>>, <<290 + x, 90>>, <<310 + x, 90>>,
                     <<280 + x, 95>>, <<320 + x, 95>>,
                     <<270 + x, 180>>, <<330 + x, 180>>,
                     <<250 + x, 250>>, <<350 + x, 250>>,
                     <<240 + x, 320>>, <<360 + x, 320>>,
                     <<280 + x, 350>>, <<320 + x, 350>>,
                     <<280 + x, 450>>, <<320 + x, 450>>,
                     <<280 + x, 550>>, <<320 + x, 550>> >>),
        AllConf(9000),
        <<240 + x, 80, 370 + x, 560>>)

\* tests/test_classifier.py _make_fallen_person(), shifted by x
fallen_person(x) ==
    PersonPose(
        Keypoints(<< <<100 + x, 300>>, <<95 + x, 295>>, <<105 + x, 295>>,
                     <<90 + x, 300>>, <<110 + x, 300>>,
                     <<150 + x, 310>>, <<150 + x, 290>>,
                     <<200 + x, 310>>, <<200 + x, 290>>,
                     <<250 + x, 310>>, <<250 + x, 290>>,
                     <<300 + x, 310>>, <<300 + x, 290>>,
                     <<350 + x, 310>>, <<350 + x, 290>>,
                     <<400 + x, 310>>, <<400 + x, 290>> >>),
        AllConf(9000),
        <<90 + x, 280, 410 + x, 320>>)

\* tests/test_classifier.py _make_sitting_person()
sitting_person ==
    PersonPose(
        Keypoints(<< <<300, 100>>, <<290, 90>>, <<310, 90>>,
                     <<280, 95>>, <<320, 95>>,
                     <<270, 180>>, <<330, 180>>,
                     <<250, 250>>, <<350, 250>>,
                     <<260, 300>>, <<340, 300>>,
                     <<280, 320>>, <<320, 320>>,
                     <<280, 330>>, <<320, 330>>,
                     <<280, 430>>, <<320, 430>> >>),
        AllConf(9000),
        <<240, 80, 360, 440>>)

\* a fallen person whose knees the pose estimator did not find (keypoint
\* confidence 0.1, below min_keypoint_confidence)
occluded_person ==
    [fallen_person(0) EXCEPT !.confidences =
        [i \in 0..16 |-> IF i \in {KP.left_knee, KP.right_knee} THEN 1000 ELSE 9000]]

\* the frames fed to the classifier
Frames ==
    { <<>>,
      <<standing_person(30)>>,
      <<fallen_person(0)>>,
      <<sitting_person>>,
      <<occluded_person>>,
      <<fallen_person(0), fallen_person(0)>>,
      <<fallen_person(0), fallen_person(20)>>,
      <<standing_person(0), standing_person(30)>>,
      <<standing_person(0), standing_person(500)>> }

\* seconds between two consecutive frames
Gaps == {1, 5}

\* the rule sets a classifier is constructed with: the defaults with
\* falling 3-of-5 (the values of test_falling_persistence), and the defaults
\* with falling 2-of-3 and fighting_min_frames = 2
RuleSets ==
    { [ActivityRules EXCEPT !.falling_persistence = 3, !.falling_window = 5],
      [ActivityRules EXCEPT !.falling_persistence = 2, !.falling_window = 3,
                            !.fighting_min_frames = 2] }

\* what a loaded sequence model may return
LstmPredictions ==
    { [class |-> "normal", conf |-> 9000],
      [class |-> "fighting", conf |-> 9000],
      [class |-> "falling", conf |-> 9000],
      [class |-> "falling", conf |-> 4000] }

NoPrediction == [class |-> "normal", conf |-> 0]

\* the value time.time() returns when classify is called without a
\* (truthy) timestamp
WallClock == 1000

\* ------------------------------------------------------------------- state
VARIABLES
    self,        \* the ActivityClassifier instance
    now,         \* the timestamp passed to the last classify call
    persons,     \* the poses passed to the last classify call
    result,      \* the ActivityResult the last call returned
    track_map,   \* the mapping tracker.update returned in the last call
    activities,  \* the candidates of the last call, before the two filters
    log,         \* one record per classify call: its inputs and its result
    peer,        \* a second classifier of the same process (SpecTwo), or <<>>
    tracker      \* a PersonTracker driven directly (SpecTracker), or <<>>

vars == <<self, now, persons, result, track_map, activities, log, peer, tracker>>

\* the state after ActivityClassifier(rules) / ActivityClassifier(rules,
\* use_lstm=True) with a model file that loads
Constructed(rule_sets, lstm_model) ==
    /\ \E rules \in rule_sets : self = ActivityClassifier(rules, lstm_model)
    /\ now = 0
    /\ persons = <<>>
    /\ result = _make_result("normal", 0, "")
    /\ track_map = <<>>
    /\ activities = <<>>
    /\ log = <<>>

Init == Constructed(RuleSets, FALSE) /\ peer = <<>> /\ tracker = <<>>

\* the number of persons of a frame for which the falling rule fires
FallenCount(rules, ps) ==
    Cardinality({i \in 1..Len(ps) : _check_falling(rules, ps[i]).ok})

\* one self.classify(persons, timestamp) call, the frame_no-th of the
\* stream; its record is appended to history
Call(ps, timestamp, pred, frame_no, history) ==
    \E out \in {classify(self, ps, timestamp, WallClock, pred, frame_no)} :
        /\ self' = out.self
        /\ result' = out.result
        /\ track_map' = out.track_map
        /\ activities' = out.activities
        /\ persons' = ps
        /\ now' = timestamp
        /\ log' = Append(history, [time |-> FrameTime(timestamp, WallClock),
                                   n |-> Len(ps),
                                   fallen |-> FallenCount(self.rules, ps),
                                   type |-> out.result.type,
                                   queried |-> LstmQueried(self, ps),
                                   pred |-> pred,
                                   live |-> DOMAIN out.self.tracker.tracks])

\* one classify(persons, timestamp) call
Classify(ps, timestamp, pred) ==
    Call(ps, timestamp, pred, Len(log) + 1, log) /\ UNCHANGED <<peer, tracker>>

\* a stream of at most MaxFrames frames drawn from frames
Stream(frames) ==
    /\ Len(log) < MaxFrames
    /\ \E ps \in frames, gap \in Gaps :
         /\ now + gap > 0
         /\ \E pred \in (IF LstmQueried(self, ps) THEN LstmPredictions
                         ELSE {NoPrediction}) :
              Classify(ps, now + gap, pred)

Next == Stream(Frames)

Spec == Init /\ [][Next]_vars

\* ------------------------------------------- a stream with a loaded model
\* the length of a stream fed to a classifier whose sequence model loaded:
\* longer than LSTM_SEQ_LEN, so that the frame buffer wraps
MaxLstmFrames == 32

\* the scenes of such a stream: one standing person, or two fallen persons
\* next to each other
LstmScenes ==
    { <<standing_person(30)>>,
      <<fallen_person(0), fallen_person(20)>> }

InitLstm == Constructed({ActivityRules}, TRUE) /\ peer = <<>> /\ tracker = <<>>

\* One frame per second of one unchanging scene.  The frame ordinal is the
\* timestamp; log keeps the records of the last two calls only.
NextLstm ==
    /\ now < MaxLstmFrames
    /\ \E ps \in LstmScenes :
         /\ now = 0 \/ ps = persons
         /\ \E pred \in (IF LstmQueried(self, ps) THEN LstmPredictions
                         ELSE {NoPrediction}) :
              /\ Call(ps, now + 1, pred, now + 1,
                      IF log = <<>> THEN <<>> ELSE <<log[Len(log)]>>)
              /\ UNCHANGED <<peer, tracker>>

SpecLstm == InitLstm /\ [][NextLstm]_vars

\* ------------------------------------------------ other configurations
\* ActivityRules is a plain dataclass and the constructor takes any instance
\* of it: a confidence floor of 0.733, a negative falling_persistence, and
\* the rules of test_fallen_person_detected (falling 1-of-1)
ConfigRuleSets ==
    { [ActivityRules EXCEPT !.global_confidence_floor = 7330],
      [ActivityRules EXCEPT !.falling_persistence = -1],
      [ActivityRules EXCEPT !.falling_persistence = 1, !.falling_window = 1] }

\* the frames of these streams: two standing persons 50 px apart give a
\* fighting confidence of 0.7333, 55 px apart of 0.7216
ConfigFrames ==
    { <<standing_person(30)>>,
      <<fallen_person(0)>>,
      <<standing_person(0), standing_person(50)>>,
      <<standing_person(0), standing_person(55)>> }

InitConfig == Constructed(ConfigRuleSets, FALSE) /\ peer = <<>> /\ tracker = <<>>

NextConfig == Stream(ConfigFrames)

SpecConfig == InitConfig /\ [][NextConfig]_vars

\* ------------------------------------------------ two classifiers
\* What an instance holds after another instance of the process handled a
\* frame.  __init__ creates the tracker, every buffer and every dict anew
\* and binds them to the instance, and the module-level objects (KP,
\* ACTIVITY_METADATA, ACTIVITY_PRIORITY) are only read: nothing of theirs
\* reaches mine.
OwnState_shared_fighting_votes(mine, theirs) ==
    [mine EXCEPT !._fighting_votes = theirs._fighting_votes]

OwnState(mine, theirs) == mine

\* the frames of the two streams
TwoFrames ==
    { <<standing_person(30)>>,
      <<fallen_person(0)>>,
      <<standing_person(0), standing_person(30)>> }

\* Two classifiers with the same rules.  peer.inst is the second instance
\* and peer.now the last timestamp of its stream; peer.solo is an instance
\* that is fed the first stream with no other instance around, and
\* peer.solo_result what it returned last.
InitTwo ==
    /\ Constructed(RuleSets, FALSE)
    /\ peer = [inst |-> ActivityClassifier(self.rules, FALSE), now |-> 0, calls |-> 0,
               solo |-> ActivityClassifier(self.rules, FALSE),
               solo_result |-> _make_result("normal", 0, "")]
    /\ tracker = <<>>

\* the first instance classifies a frame of its stream
Own(ps, timestamp) ==
    /\ Call(ps, timestamp, NoPrediction, Len(log) + 1, log)
    /\ \E ref \in {classify(peer.solo, ps, timestamp, WallClock, NoPrediction, Len(log) + 1)} :
         peer' = [peer EXCEPT !.inst = OwnState(peer.inst, self'),
                              !.solo = ref.self,
                              !.solo_result = ref.result]
    /\ UNCHANGED tracker

\* the second instance classifies a frame of its stream
Other(ps, timestamp) ==
    \E out \in {classify(peer.inst, ps, timestamp, WallClock, NoPrediction, peer.calls + 1)} :
        /\ peer' = [peer EXCEPT !.inst = out.self, !.now = timestamp,
                                !.calls = peer.calls + 1]
        /\ self' = OwnState(self, out.self)
        /\ UNCHANGED <<now, persons, result, track_map, activities, log, tracker>>

NextTwo ==
    /\ Len(log) + peer.calls < MaxFrames
    /\ \E ps \in TwoFrames, gap \in Gaps :
         \/ Own(ps, now + gap)
         \/ Other(ps, peer.now + gap)

SpecTwo == InitTwo /\ [][NextTwo]_vars

\* ------------------------------------------------- the tracker on its own
\* the number of update calls made on a tracker that is driven directly
MaxUpdates == 3

\* a detection handed to update: its centroid and its box
Detection(cx, cy, bbox) == [centroid |-> <<cx, cy>>, bbox |-> bbox]

\* a person at x = 100 with a box
det_a == Detection(100, 100, <<80, 60, 120, 140>>)

\* a person 30 px to the right of det_a: within max_distance, IoU with the
\* box of det_a below iou_threshold
det_b == Detection(130, 100, <<110, 60, 150, 140>>)

\* a detection without a box at x = 200
det_c == Detection(200, 100, NoBox)

\* a detection whose centroid is 10 px from det_c and 90 px from det_a while
\* its box overlaps the box of det_a with IoU 0.9
det_d == Detection(190, 100, <<82, 60, 122, 140>>)

\* a detection without a box halfway between det_a and det_c
det_e == Detection(150, 100, NoBox)

\* the detection lists of the update calls
DetectionLists ==
    { <<>>,
      <<det_e>>,
      <<det_a>>,
      <<det_c>>,
      <<det_d>>,
      <<det_a, det_c>>,
      <<det_b, det_a>>,
      <<det_a, det_a>> }

\* the seconds between two update calls: the timestamps never decrease
UpdateGaps == {0, 1, 5}

\* the track ids the three accessors are called with
QueryIds == {0, 9}

NoQuery == [track_id |-> -1, velocity |-> -1, duration |-> 0, history |-> <<>>]

\* PersonTracker(max_history=2) before its first call.  obj is the tracker
\* object; the other fields record the last update call (its arguments, the
\* track chosen for each detection, the returned dict), the number of calls
\* and of detections so far, and what the last accessor calls returned.
InitTracker ==
    /\ Constructed({ActivityRules}, FALSE)
    /\ peer = <<>>
    /\ tracker = [obj |-> [PersonTracker EXCEPT !.max_history = 2],
                  detections |-> <<>>, timestamp |-> 0, calls |-> 0, seen |-> 0,
                  assigned |-> <<>>, matched |-> <<>>, query |-> NoQuery]

\* the tracker after get_velocity, get_track_duration and get_track_history
\* were called with track_id: all three read self.tracks with .get, which
\* inserts nothing into the defaultdict
Accessed_by_subscript(tr, track_id) ==
    IF track_id \in DOMAIN tr.tracks THEN tr
    ELSE [tr EXCEPT !.tracks = Put(tr.tracks, track_id, <<>>)]

Accessed(tr, track_id) == tr

\* tracker.update(centroids, timestamp, bboxes)
Update(dets, timestamp) ==
    \E up \in {update(tracker.obj, [i \in 1..Len(dets) |-> dets[i].centroid], timestamp,
                      [i \in 1..Len(dets) |-> dets[i].bbox])} :
        tracker' = [obj |-> up.tr, detections |-> dets, timestamp |-> timestamp,
                    calls |-> tracker.calls + 1,
                    seen |-> tracker.seen + Len(dets), assigned |-> up.assigned,
                    matched |-> up.matched, query |-> NoQuery]

\* get_velocity(track_id), get_track_duration(track_id) and
\* get_track_history(track_id)
Query(track_id) ==
    tracker' = [tracker EXCEPT
                  !.obj = Accessed(tracker.obj, track_id),
                  !.query = [track_id |-> track_id,
                             velocity |-> get_velocity(tracker.obj, track_id, 5),
                             duration |-> get_track_duration(tracker.obj, track_id),
                             history |-> get_track_history(tracker.obj, track_id)]]

NextTracker ==
    /\ UNCHANGED <<self, now, persons, result, track_map, activities, log, peer>>
    /\ \/ /\ tracker.calls < MaxUpdates
          /\ \E dets \in DetectionLists, gap \in UpdateGaps :
               Update(dets, tracker.timestamp + gap)
       \/ /\ tracker.query = NoQuery
          /\ \E track_id \in QueryIds : Query(track_id)

SpecTracker == InitTracker /\ [][NextTracker]_vars

\* ------------------------------------------------- a long, slow stream
\* the length of a stream that outlasts the tracker's history window
MaxLoiterFrames == 160

\* loiter_duration set to 150 s, just above max_history - 1 frames of 1 s
LoiterRules == [ActivityRules EXCEPT !.loiter_duration = 150]

\* seconds between two consecutive frames of the stream
LoiterFrameGap == 1

\* the frames (by ordinal) during which the person may be out of view: the
\* person leaves after the first frame or not at all, and is back at the
\* end of the window
Absence == 2..150

InitLoiter == Constructed({LoiterRules}, FALSE) /\ peer = <<>> /\ tracker = <<>>

\* One frame per second; the frame ordinal is the timestamp.  A frame shows
\* one standing person, or nobody during an absence; log keeps the record of
\* the last call only.
NextLoiter ==
    /\ now < MaxLoiterFrames
    /\ \E ps \in {<<standing_person(30)>>, <<>>} :
         /\ ps = <<>> =>
                now + 1 \in Absence /\ (now + 1 = 2 \/ persons = <<>>)
         /\ ps # <<>> =>
                now + 1 \notin Absence \/ persons # <<>>
         /\ Call(ps, now + LoiterFrameGap, NoPrediction, now + 1, <<>>)
         /\ UNCHANGED <<peer, tracker>>

SpecLoiter == InitLoiter /\ [][NextLoiter]_vars

\* ------------------------------------------- a stream that starts at 0
\* seconds between two consecutive frames of a stream whose clock starts at
\* 0: two frames may carry the same timestamp
ClockGaps == {0, 1, 5}

ClockFrames ==
    { <<>>,
      <<standing_person(30)>>,
      <<fallen_person(0)>> }

InitClock == Constructed({ActivityRules}, FALSE) /\ peer = <<>> /\ tracker = <<>>

\* classify(persons, timestamp) with timestamps from 0.0 on
NextClock ==
    /\ Len(log) < MaxFrames
    /\ \E ps \in ClockFrames, gap \in ClockGaps :
         Classify(ps, now + gap, NoPrediction)

SpecClock == InitClock /\ [][NextClock]_vars

\* ------------------------------------------- persons without a box
\* a standing person the detector gave no bounding box (PersonPose.bbox is
\* None)
boxless_person(x) == [standing_person(x) EXCEPT !.bbox = NoBox]

\* a boxless standing person whose left wrist is raised to chest height
striking_person(x) ==
    [boxless_person(x) EXCEPT !.keypoints[KP.left_wrist] = <<300 + x, 190>>]

\* frames with pairs that lack a box: a striking pair 10 px apart, the same
\* with one box present, a close pair without contact followed by a boxed
\* overlapping pair, a boxed pair followed by a boxless striking pair, and
\* a boxless pair 40 px apart next to a boxed overlapping pair
FightFrames ==
    { <<striking_person(0), boxless_person(10)>>,
      <<striking_person(0), standing_person(10)>>,
      <<boxless_person(0), boxless_person(10), standing_person(200), standing_person(230)>>,
      <<standing_person(0), standing_person(70), striking_person(600), boxless_person(610)>>,
      <<boxless_person(0), boxless_person(40), standing_person(100), standing_person(130)>> }

InitFight == Constructed({ActivityRules}, FALSE) /\ peer = <<>> /\ tracker = <<>>

NextFight == Stream(FightFrames)

SpecFight == InitFight /\ [][NextFight]_vars

\* ------------------------------------------- tilted poses
\* a person on the ground seen partly: shoulders at (130, shoulder_y), hips
\* at (300, 300), knees at (350, 160), that is 140 px above the hips in the
\* image, in a wide box; the other keypoints are at the origin
tilted_person(shoulder_y) ==
    PersonPose(
        [i \in 0..16 |->
            CASE i = KP.left_shoulder -> <<130, shoulder_y + 10>>
              [] i = KP.right_shoulder -> <<130, shoulder_y - 10>>
              [] i = KP.left_hip -> <<300, 310>>
              [] i = KP.right_hip -> <<300, 290>>
              [] i = KP.left_knee -> <<350, 170>>
              [] i = KP.right_knee -> <<350, 150>>
              [] OTHER -> <<0, 0>>],
        AllConf(9000),
        <<90, 150, 410, 320>>)

\* torso tilts of 80 degrees (shoulders at y = 270) and of 65 degrees
\* (shoulders at y = 221), a fallen and a standing person
PoseFrames ==
    { <<tilted_person(270)>>,
      <<tilted_person(221)>>,
      <<fallen_person(0)>>,
      <<standing_person(30)>> }

InitPose == Constructed(RuleSets, FALSE) /\ peer = <<>> /\ tracker = <<>>

NextPose == Stream(PoseFrames)

SpecPose == InitPose /\ [][NextPose]_vars

\* ------------------------------------------- a walking person
\* the length of a stream in which one person walks
MaxRunFrames == 7

\* running_velocity lowered to 50 px/s and running_min_frames to 2, so that
\* a track matched by the tracker from frame to frame can exceed the
\* threshold
RunRules == [ActivityRules EXCEPT !.running_velocity = 50, !.running_min_frames = 2]

\* what the person does between two frames, as <<px moved, seconds>>: walks
\* 60 px in a second, stands for a second, or is seen 60 px further in a
\* frame with the same timestamp
Moves == {<<60, 1>>, <<0, 1>>, <<60, 0>>}

\* the x offset of the person of the last frame
LastOffset == IF persons = <<>> THEN 0 ELSE persons[1].keypoints[KP.left_hip][1] - 280

InitRun == Constructed({RunRules}, FALSE) /\ peer = <<>> /\ tracker = <<>>

\* one frame with one standing person, moved on from the last frame
NextRun ==
    /\ Len(log) < MaxRunFrames
    /\ \E move \in Moves :
         /\ now + move[2] > 0
         /\ Classify(<<standing_person(LastOffset + move[1])>>, now + move[2],
                     NoPrediction)

SpecRun == InitRun /\ [][NextRun]_vars

\* ================================================================== claims
\* helpers of the claim formulas
LastCall == log[Len(log)]

\* the hip midpoint classify hands to the tracker for a pose
CentroidOf(person) == _midpoint(person.keypoints, KP.left_hip, KP.right_hip)

\* matched[(cx, cy)] of a returned mapping, -1 when the key is missing
TrackIdOf(m, c) ==
    IF \E k \in 1..Len(m) : m[k][1] = c
    THEN m[CHOOSE k \in 1..Len(m) : m[k][1] = c][2]
    ELSE -1

\* the calls whose frame held a pose for which the falling rule fires
FallingFrames == {k \in 1..Len(log) : log[k].fallen > 0}

\* the candidate types of the last call after persistence voting
ConfirmedTypes == {activities[k][1] : k \in 1..Len(activities)}

\* C1: with no sequence model and falling_persistence > 1, a run in which
\* exactly one frame holds a falling-shaped pose never returns 'falling'.
C1_NoSingleFrameFalling ==
    (/\ ~self._lstm_model
     /\ self.rules.falling_persistence > 1
     /\ Cardinality(FallingFrames) = 1)
    => \A k \in 1..Len(log) : log[k].type # "falling"

\* C3: with falling 3-of-5, the fallen pose fed alone on three frames with
\* increasing positive timestamps to a new classifier returns normal,
\* normal, falling.
C3_PersistenceExactness ==
    (/\ self.rules.falling_persistence = 3
     /\ self.rules.falling_window = 5
     /\ Len(log) = 3
     /\ \A k \in 1..3 : log[k].n = 1 /\ log[k].fallen = 1
     /\ 0 < log[1].time /\ log[1].time < log[2].time /\ log[2].time < log[3].time)
    => /\ log[1].type = "normal"
       /\ log[2].type = "normal"
       /\ log[3].type = "falling"

\* C5: a track unmatched for longer than stale_timeout is gone after the
\* call, and no detection of a call is given the id of a track that had been
\* unseen for longer than stale_timeout when the call was made.
C5_StaleTrackEvictedNeverReused ==
    [][/\ \A tid \in DOMAIN self'.tracker.last_seen :
             now' - self'.tracker.last_seen[tid] <= stale_timeout
       /\ \A k \in 1..Len(track_map') :
             track_map'[k][2] \in DOMAIN self.tracker.last_seen
                 => now' - self.tracker.last_seen[track_map'[k][2]] <= stale_timeout
      ]_vars

\* person i of the last frame and person j of the next frame are the same
\* person moving less than max_distance: they are less than max_distance
\* apart and each is nearer to the other than to any other detection of the
\* other's frame
SamePerson(ps, i, qs, j) ==
    LET ci == CentroidOf(ps[i])
        cj == CentroidOf(qs[j])
    IN  /\ DistSq(ci, cj) < max_distance * max_distance
        /\ \A k \in (1..Len(qs)) \ {j} : DistSq(ci, cj) < DistSq(ci, CentroidOf(qs[k]))
        /\ \A k \in (1..Len(ps)) \ {i} : DistSq(ci, cj) < DistSq(CentroidOf(ps[k]), cj)

\* C6 as claimed: over two consecutive update calls a person moving less
\* than max_distance keeps its track id, whoever else is detected.
C6_SmoothPersonKeepsId ==
    [][\A i \in 1..Len(persons), j \in 1..Len(persons') :
           SamePerson(persons, i, persons', j)
               => TrackIdOf(track_map', CentroidOf(persons'[j]))
                      = TrackIdOf(track_map, CentroidOf(persons[i]))
      ]_vars

\* no other detection of the new frame qs is within max_distance of the
\* person's old or new centroid or overlaps the last box of its track tid
\* with IoU >= iou_threshold, and the person's new detection is neither
\* within max_distance of, nor overlaps, any other track of the tracker tr
Isolated(tr, tid, ci, qs, j) ==
    LET cj == CentroidOf(qs[j])
        far(a, b) == DistSq(a, b) >= max_distance * max_distance
        apart(box_a, box_b) == box_a = NoBox \/ _iou(box_a, box_b) < iou_threshold
    IN  /\ \A k \in (1..Len(qs)) \ {j} :
              /\ far(CentroidOf(qs[k]), ci)
              /\ far(CentroidOf(qs[k]), cj)
              /\ tid \in DOMAIN tr.last_bbox => apart(qs[k].bbox, tr.last_bbox[tid])
        /\ \A other \in (DOMAIN tr.tracks) \ {tid} :
              /\ far(cj, <<tr.tracks[other][Len(tr.tracks[other])][1],
                           tr.tracks[other][Len(tr.tracks[other])][2]>>)
              /\ other \in DOMAIN tr.last_bbox
                     => apart(qs[j].bbox, tr.last_bbox[other])

\* C6 amended: a person moving less than max_distance between two
\* consecutive update calls keeps its track id, also with other persons in
\* the frame, provided it stays isolated from the other detections and
\* tracks.
C6_IsolatedPersonKeepsId ==
    [][\A i \in 1..Len(persons), j \in 1..Len(persons') :
           LET tid == TrackIdOf(track_map, CentroidOf(persons[i]))
           IN  (/\ SamePerson(persons, i, persons', j)
                /\ Isolated(self.tracker, tid, CentroidOf(persons[i]), persons', j))
               => TrackIdOf(track_map', CentroidOf(persons'[j])) = tid
      ]_vars

\* C6 witness: two persons are in the frame; one of them moved, by less
\* than max_distance, since the previous call and kept its track, and the
\* other one is at least max_distance away from where it was and where it is
C6_Witness ==
    /\ Len(persons) = 2
    /\ \E k \in 1..2 :
          LET cur == CentroidOf(persons[k])
              other == CentroidOf(persons[3 - k])
              tid == TrackIdOf(track_map, cur)
              h == self.tracker.tracks[tid]
              prev == <<h[Len(h) - 1][1], h[Len(h) - 1][2]>>
          IN  /\ tid \in DOMAIN self.tracker.tracks
              /\ Len(h) >= 2
              /\ <<h[Len(h)][1], h[Len(h)][2]>> = cur
              /\ prev # cur
              /\ DistSq(prev, cur) < max_distance * max_distance
              /\ DistSq(other, cur) >= max_distance * max_distance
              /\ DistSq(other, prev) >= max_distance * max_distance

\* C7: after every classify call the classifier holds falling and running
\* voting buffers only for track ids still present in the tracker.
C7_VotesOnlyForLiveTracks ==
    /\ DOMAIN self._falling_votes \subseteq DOMAIN self.tracker.tracks
    /\ DOMAIN self._running_votes \subseteq DOMAIN self.tracker.tracks

\* C2: once a type X is returned at time T, no later call returns X at a
\* time t with t - T < activity_cooldown.
C2_CooldownSuppression ==
    \A k, m \in 1..Len(log) :
        (k < m /\ log[k].type # "normal" /\ log[k].type = log[m].type)
            => log[m].time - log[k].time >= self.rules.activity_cooldown

\* C2 witness: 'falling' was returned less than activity_cooldown ago, its
\* candidate is confirmed again on this frame, and the call returns another
\* type ('fighting') inside the window
C2_Witness ==
    /\ Len(log) >= 2
    /\ \E k \in 1..(Len(log) - 1) :
          /\ log[k].type = "falling"
          /\ LastCall.time - log[k].time < self.rules.activity_cooldown
    /\ "falling" \in ConfirmedTypes
    /\ result.type = "fighting"

\* C4 as claimed: whenever a fighting and a falling candidate are both
\* confirmed on a frame, that frame returns 'fighting'.
C4_FightingBeatsFalling ==
    {"fighting", "falling"} \subseteq ConfirmedTypes => result.type = "fighting"

\* C4 amended: when a call confirms a fighting and a falling candidate and
\* the fighting candidate passes the confidence floor and the cooldown
\* filter, the call returns 'fighting'.
C4_SurvivingFightingBeatsFalling ==
    [][(/\ \E k \in 1..Len(activities') : activities'[k][1] = "falling"
        /\ \E k \in 1..Len(activities') :
              /\ activities'[k][1] = "fighting"
              /\ activities'[k][2] >= self.rules.global_confidence_floor
        /\ ~_is_on_cooldown(self, "fighting", FrameTime(now', WallClock)))
       => result'.type = "fighting"
      ]_vars

\* C4 witness: both candidates are confirmed and pass the floor, no earlier
\* call returned anything but 'normal', and the call returns 'fighting'
C4_Witness ==
    /\ {"fighting", "falling"} \subseteq ConfirmedTypes
    /\ \A k \in 1..Len(activities) :
          activities[k][2] >= self.rules.global_confidence_floor
    /\ \A k \in 1..(Len(log) - 1) : log[k].type = "normal"
    /\ result.type = "fighting"

\* a pose whose shoulder, hip or knee keypoints are below
\* min_keypoint_confidence
Malformed(rules, person) ==
    \E i \in {KP.left_shoulder, KP.right_shoulder, KP.left_hip,
              KP.right_hip, KP.left_knee, KP.right_knee} :
        person.confidences[i] < rules.min_keypoint_confidence

C9_CooldownOnlyForWinner ==
    [][/\ result'.type = "normal" => self'._cooldowns = self._cooldowns
       /\ result'.type # "normal"
             => self'._cooldowns = Put(self._cooldowns, result'.type, now')
      ]_vars

\* C9 witness: 'fighting' won over a confirmed 'falling' candidate that
\* passed the floor, and 'falling' has no cooldown entry
C9_Witness ==
    /\ result.type = "fighting"
    /\ \E k \in 1..Len(activities) :
          /\ activities[k][1] = "falling"
          /\ activities[k][2] >= self.rules.global_confidence_floor
    /\ LastCall.time >= self.rules.activity_cooldown
    /\ DOMAIN self._cooldowns = {"fighting"}

\* C10: the sitting pose gives no falling candidate, and as long as no
\* frame has produced a falling candidate no call returns 'falling'.
C10_SittingNeverFalling ==
    /\ ~_check_falling(self.rules, sitting_person).ok
    /\ persons = <<sitting_person>> => LastCall.fallen = 0
    /\ (~self._lstm_model /\ FallingFrames = {})
          => \A k \in 1..Len(log) : log[k].type # "falling"

\* C10 witness: the sitting person alone was fed on at least
\* falling_persistence frames, the last of them after the first cooldown
\* window, and every call returned 'normal'
C10_Witness ==
    /\ persons = <<sitting_person>>
    /\ Len(log) >= self.rules.falling_persistence
    /\ LastCall.time >= self.rules.activity_cooldown
    /\ Len(track_map) = 1
    /\ LET h == self.tracker.tracks[track_map[1][2]]
       IN  /\ Len(h) = Len(log)
           /\ \A k \in 1..Len(h) : <<h[k][1], h[k][2]>> = CentroidOf(sitting_person)
    /\ \A k \in 1..Len(log) : log[k].type = "normal"

\* the ids of the tracks alive after the k-th call (none before the first)
LiveAfter(k) == IF k = 0 THEN {} ELSE log[k].live

\* the ids the k-th call allocated
AllocatedBy(k) == LiveAfter(k) \ LiveAfter(k - 1)

\* every id that was allocated by a call before the k-th
AllocatedBefore(k) == UNION {LiveAfter(j) : j \in 0..(k - 1)}

\* C11: every track id allocated by an update call is strictly greater than
\* every id allocated before it, so the id of a purged track is never
\* assigned again
C11_TrackIdsIncreaseNeverReused ==
    \A k \in 1..Len(log) :
        \A tid \in AllocatedBy(k) :
            \A old \in AllocatedBefore(k) : tid > old

\* a call allocated an id after an earlier track had been purged
C11_Witness ==
    \E k \in 1..Len(log) :
        /\ AllocatedBy(k) # {}
        /\ AllocatedBefore(k) \ LiveAfter(k - 1) # {}

\* C12: the mapping update returns has exactly one entry per detection of
\* the frame, and no two detections of one frame receive the same id
C12_OneIdPerDetection ==
    Len(log) > 0 =>
        /\ Len(track_map) = Len(persons)
        /\ \A i, j \in 1..Len(track_map) :
               i # j => track_map[i][2] # track_map[j][2]

\* C13: every frame passed to classify pushes one boolean into the global
\* fighting buffer, also a frame with fewer than two persons, so the buffer
\* holds one vote for each of the most recent 8 frames
C13_EveryFramePushesFightingVote ==
    Len(self._fighting_votes) = Min2(FIGHTING_VOTES_MAXLEN, Len(log))

\* the positions of the candidates of one type in the last call's list
CandidatesOf(type) == {k \in 1..Len(activities) : activities[k][1] = type}

\* the candidates of one type that pass the confidence floor
PassingOf(type) ==
    {k \in CandidatesOf(type) : activities[k][2] >= self.rules.global_confidence_floor}

\* C14 (as stated): each activity type contributes at most one candidate per
\* frame
C14_OneCandidatePerType ==
    \A type \in ActivityTypes : Cardinality(CandidatesOf(type)) <= 1

\* C14 (amended): a type contributes at most one candidate per person plus
\* one of the sequence model, and of several candidates of the returned type
\* the first one appended that passes the floor gives the result its
\* confidence and description
C14_FirstCandidateOfTypeWins ==
    /\ \A type \in ActivityTypes :
           Cardinality(CandidatesOf(type)) <= Len(persons) + 1
    /\ result.type # "normal" =>
           \E k \in PassingOf(result.type) :
               /\ \A j \in PassingOf(result.type) : k <= j
               /\ result.confidence = Round2(activities[k][2])
               /\ result.description = activities[k][3]

\* a call returned a type of which the list held candidates with different
\* descriptions
C14_Witness ==
    /\ result.type # "normal"
    /\ \E j, k \in PassingOf(result.type) :
           activities[j][3] # activities[k][3]

\* C15 (as stated): every non-normal result has a confidence of at least
\* global_confidence_floor
C15_ResultAtLeastFloor ==
    result.type # "normal" => result.confidence >= self.rules.global_confidence_floor

\* C15 (amended): the candidate behind every non-normal result has a
\* confidence of at least global_confidence_floor; the result carries that
\* confidence rounded to two decimals, which is less than 0.005 below it
C15_WinnerPassesFloorBeforeRounding ==
    result.type # "normal" =>
        /\ \E k \in 1..Len(activities) :
               /\ activities[k][1] = result.type
               /\ activities[k][2] >= self.rules.global_confidence_floor
               /\ result.confidence = Round2(activities[k][2])
        /\ result.confidence > self.rules.global_confidence_floor - 50

\* a result whose rounded confidence is below the floor its candidate passed
C15_Witness ==
    /\ result.type # "normal"
    /\ result.confidence < self.rules.global_confidence_floor

\* the candidates of the last call that came from the sequence model
LstmCandidates == {k \in 1..Len(activities) : activities[k][3] = "LSTM detected"}

\* C16: with no sequence model loaded every call returns a result, no
\* candidate comes from the sequence model, the model is never queried, and
\* the sequence frame buffer and the LSTM vote buffer stay empty
C16_NoModelRulesOnly ==
    ~self._lstm_model =>
        /\ self._lstm_buffer = <<>>
        /\ self._lstm_votes = <<>>
        /\ LstmCandidates = {}
        /\ result.type \in ActivityTypes
        /\ \A k \in 1..Len(log) : ~log[k].queried

\* without a model, three frames with persons were classified and the last
\* one returned an alert
C16_Witness ==
    /\ ~self._lstm_model
    /\ Len(log) >= 3
    /\ \A k \in 1..Len(log) : log[k].n > 0
    /\ result.type # "normal"

\* the call before the last one
CallBefore == log[Len(log) - 1]

\* C17: a prediction of the sequence model is a candidate only if its label
\* is not 'normal', its confidence is at least 0.5, and the prediction the
\* model returned before it carries the same label
C17_LstmCandidateNeedsAgreement ==
    \A k \in LstmCandidates :
        /\ LastCall.queried
        /\ activities[k][1] = LastCall.pred.class
        /\ activities[k][2] = LastCall.pred.conf
        /\ LastCall.pred.class # "normal"
        /\ LastCall.pred.conf >= 5000
        /\ Len(log) >= 2
        /\ CallBefore.queried
        /\ CallBefore.pred.class = LastCall.pred.class

\* the model returned the same alert label twice and the second prediction
\* became a candidate
C17_Witness ==
    /\ LstmCandidates # {}
    /\ Len(log) >= 2
    /\ CallBefore.pred.class = LastCall.pred.class

\* the ordinals of the last n frames of a stream of `now` frames with a
\* person each, in arrival order
LastFrames(n) == [i \in 1..n |-> now - n + i]

\* C18: in a stream of frames with a person each, the model is not queried
\* before the fifteenth frame; the buffer holds the most recent frames, at
\* most 30, in arrival order; and the sequence of a query has exactly 30
\* frames, the buffered ones followed by copies of the last
C18_QueryOnlyPaddedSequences ==
    /\ Len(self._lstm_buffer) <= 30
    /\ self._lstm_buffer = LastFrames(Min2(now, 30))
    /\ \A k \in 1..Len(log) : log[k].queried => log[k].time >= 15
    /\ (Len(log) > 0 /\ LastCall.queried) =>
           /\ Len(LstmSequence(self._lstm_buffer)) = 30
           /\ \A i \in 1..30 :
                  LstmSequence(self._lstm_buffer)[i] =
                      IF i <= Len(self._lstm_buffer) THEN self._lstm_buffer[i]
                      ELSE now

\* the model was queried on a buffer that had to be padded
C18_Witness ==
    /\ Len(log) > 0
    /\ LastCall.queried
    /\ Len(self._lstm_buffer) >= 15
    /\ Len(self._lstm_buffer) < 30

C20_CorruptRulesRejected ==
    Len(log) > 0 => \A field \in DOMAIN self.rules : self.rules[field] >= 0

\* the step is a call of the three accessors with a track id the tracker
\* does not hold
QueryOfMissingTrack ==
    /\ tracker.query = NoQuery
    /\ tracker'.query # NoQuery
    /\ tracker'.query.track_id \notin DOMAIN tracker.obj.tracks

\* C21: get_velocity, get_track_duration and get_track_history called with a
\* track id that does not exist return None, 0.0 and an empty list, and
\* leave the tracker as it was: no track entry is created
C21_MissingTrackQueriesAreInert ==
    [][QueryOfMissingTrack =>
           /\ tracker'.query.velocity = -1
           /\ tracker'.query.duration = 0
           /\ tracker'.query.history = <<>>
           /\ tracker'.obj = tracker.obj]_vars

\* the accessors were called with the id of a purged track
C21_Witness ==
    /\ tracker.query # NoQuery
    /\ tracker.query.track_id \notin DOMAIN tracker.obj.tracks
    /\ tracker.query.track_id < tracker.obj.next_id

\* C22: when update(..., now) has returned, the tracker holds no track with
\* now - last_seen > stale_timeout, and history, last-seen time and last box
\* of a purged track are gone together
C22_NoStaleTrackAfterUpdate ==
    tracker.calls > 0 =>
        /\ \A tid \in DOMAIN tracker.obj.last_seen :
               tracker.timestamp - tracker.obj.last_seen[tid] <= stale_timeout
        /\ DOMAIN tracker.obj.tracks = DOMAIN tracker.obj.last_seen
        /\ DOMAIN tracker.obj.last_bbox \subseteq DOMAIN tracker.obj.tracks

\* an update with a detection purged one track and kept another
C22_Witness ==
    /\ tracker.obj.tracks # <<>>
    /\ tracker.detections # <<>>
    /\ \E tid \in 0..(tracker.obj.next_id - 1) :
           tid \notin DOMAIN tracker.obj.tracks

\* the step is an update call
UpdateStep == tracker'.calls = tracker.calls + 1

\* the tracks that are unmatched when the update call of this step reaches
\* its i-th detection
UnmatchedAt(i) ==
    DOMAIN tracker.obj.tracks \ {tracker'.assigned[j] : j \in 1..(i - 1)}

\* the last box of track tid has IoU >= iou_threshold with the box of the
\* i-th detection of this step
IouQualifies(tid, i) ==
    /\ tracker'.detections[i].bbox # NoBox
    /\ tid \in DOMAIN tracker.obj.last_bbox
    /\ _iou(tracker'.detections[i].bbox, tracker.obj.last_bbox[tid]) >= iou_threshold

\* C23: a detection for which some unmatched track qualifies by IoU is given
\* an unmatched track that qualifies by IoU, never one that qualifies only
\* by centroid distance and never a new track
C23_IouMatchOutranksCentroid ==
    [][UpdateStep =>
           \A i \in 1..Len(tracker'.detections) :
               (\E tid \in UnmatchedAt(i) : IouQualifies(tid, i)) =>
                   /\ tracker'.assigned[i] \in UnmatchedAt(i)
                   /\ IouQualifies(tracker'.assigned[i], i)]_vars

\* det_d was given the track of det_a, 90 px away, by its box while the
\* track of det_c, 10 px away, was alive
C23_Witness ==
    /\ tracker.detections = <<det_d>>
    /\ \E tid, other \in DOMAIN tracker.obj.tracks :
           /\ tracker.assigned = <<tid>>
           /\ Len(tracker.obj.tracks[tid]) = 2
           /\ tracker.obj.tracks[tid][1][1] = det_a.centroid[1]
           /\ other # tid
           /\ tracker.obj.tracks[other][Len(tracker.obj.tracks[other])][1]
                  = det_c.centroid[1]

\* the score the track tid has for the i-th detection of this step
ScoreAt(tid, i) ==
    TrackScore(tracker.obj, tid, tracker'.detections[i].centroid,
               tracker'.detections[i].bbox)

\* C24: each detection is given the unmatched track with the highest score
\* above zero, of equal scores the one inserted first (the lowest id), and a
\* new track when no unmatched track scores above zero
C24_BestScoreFirstInserted ==
    [][UpdateStep =>
           \A i \in 1..Len(tracker'.detections) :
               IF \E tid \in UnmatchedAt(i) : ScoreAt(tid, i).k > 0
               THEN /\ tracker'.assigned[i] \in UnmatchedAt(i)
                    /\ ScoreAt(tracker'.assigned[i], i).k > 0
                    /\ \A tid \in UnmatchedAt(i) :
                           /\ ~ScoreGT(ScoreAt(tid, i), ScoreAt(tracker'.assigned[i], i))
                           /\ tid < tracker'.assigned[i] =>
                                  ScoreGT(ScoreAt(tracker'.assigned[i], i), ScoreAt(tid, i))
               ELSE tracker'.assigned[i] \notin DOMAIN tracker.obj.tracks]_vars

\* det_e, 50 px from the tracks of det_a and of det_c, was given the older
\* of the two
C24_Witness ==
    /\ tracker.detections = <<det_e>>
    /\ \E tid, other \in DOMAIN tracker.obj.tracks :
           /\ tracker.assigned = <<tid>>
           /\ tid < other
           /\ Len(tracker.obj.tracks[tid]) = 2
           /\ tracker.obj.tracks[tid][1][1] = det_a.centroid[1]
           /\ tracker.obj.tracks[other][Len(tracker.obj.tracks[other])][1]
                  = det_c.centroid[1]

\* C25: with update called at non-decreasing timestamps, the samples of
\* every track are ordered by ascending timestamp
C25_HistoryTimeOrdered ==
    \A tid \in DOMAIN tracker.obj.tracks :
        \A k \in 1..(Len(tracker.obj.tracks[tid]) - 1) :
            tracker.obj.tracks[tid][k][3] <= tracker.obj.tracks[tid][k + 1][3]

\* a track holds two samples taken at different times
C25_Witness ==
    \E tid \in DOMAIN tracker.obj.tracks :
        /\ Len(tracker.obj.tracks[tid]) = 2
        /\ tracker.obj.tracks[tid][1][3] < tracker.obj.tracks[tid][2][3]

\* the sample the update call of this step stores for its i-th detection
SampleAt(i) ==
    <<tracker'.detections[i].centroid[1], tracker'.detections[i].centroid[2],
      tracker'.timestamp>>

\* the last n entries of a sequence
LastOf(s, n) == SubSeq(s, Len(s) - Min2(Len(s), n) + 1, Len(s))

\* C26: a history never holds more than max_history samples, and a sample
\* appended to a track leaves the most recent max_history samples in their
\* order, the oldest dropped when the history was full
C26_HistoryBounded ==
    [][UpdateStep =>
           \A tid \in DOMAIN tracker'.obj.tracks :
               /\ Len(tracker'.obj.tracks[tid]) <= tracker.obj.max_history
               /\ \A i \in 1..Len(tracker'.assigned) :
                      (tracker'.assigned[i] = tid /\ tid \in DOMAIN tracker.obj.tracks) =>
                          tracker'.obj.tracks[tid] =
                              LastOf(Append(tracker.obj.tracks[tid], SampleAt(i)),
                                     tracker.obj.max_history)]_vars

\* three detections were all appended to the only track there ever was, whose
\* history holds two samples
C26_Witness ==
    /\ tracker.obj.next_id = 1
    /\ tracker.seen >= 3
    /\ 0 \in DOMAIN tracker.obj.tracks
    /\ Len(tracker.obj.tracks[0]) = tracker.obj.max_history

\* C27 (as stated): 'fighting' is returned only for frames with at least two
\* persons
C27_FightingNeedsTwoPersons ==
    result.type = "fighting" => Len(persons) >= 2

\* C27 (amended): 'fighting' for a frame with fewer than two persons is the
\* candidate of the sequence model: the model was queried on that frame and
\* its last two predictions were 'fighting', this one with confidence >= 0.5
C27_LoneFightingIsFromModel ==
    (result.type = "fighting" /\ Len(persons) < 2) =>
        /\ LastCall.queried
        /\ LastCall.pred = [class |-> "fighting", conf |-> result.confidence]
        /\ result.confidence >= 5000
        /\ result.description = "LSTM detected"
        /\ Len(log) >= 2
        /\ CallBefore.queried
        /\ CallBefore.pred.class = "fighting"

\* 'fighting' was returned for a frame with one person
C27_Witness ==
    /\ result.type = "fighting"
    /\ Len(persons) = 1

\* C28: with falling_persistence = 1 and falling_window = 1 the first frame
\* of a fresh classifier that contains a fallen pose returns 'falling',
\* abnormal, severity 'high'
C28_FallenFirstFrameDetected ==
    (/\ self.rules.falling_persistence = 1
     /\ self.rules.falling_window = 1
     /\ Len(log) = 1
     /\ LastCall.fallen > 0) =>
        /\ result.type = "falling"
        /\ result.is_abnormal
        /\ result.severity = "high"

\* C29: a frame in which two persons stand within fighting proximity with
\* strongly overlapping boxes returns 'fighting' with severity 'high', the
\* first frame of a fresh classifier included
C29_TwoClosePersonsFighting ==
    (/\ Len(log) > 0
     /\ persons = <<standing_person(0), standing_person(30)>>
     /\ _check_fighting(self.rules, persons).ok) =>
        /\ result.type = "fighting"
        /\ result.severity = "high"

\* the table of severity and abnormality per activity type, written out
SeverityOf(type) ==
    CASE type = "normal" -> "low"
      [] type = "running" -> "medium"
      [] type = "fighting" -> "high"
      [] type = "falling" -> "high"
      [] type = "loitering" -> "low"

\* C30: a call in which no candidate survives the confidence floor and the
\* cooldown, the call with an empty pose list included, returns type
\* 'normal' with confidence 0 and is_abnormal false; and every result's
\* is_abnormal and severity are those of the table entry of its type, with
\* is_abnormal true exactly for running, fighting, falling and loitering
C30_NormalWhenNothingSurvives ==
    [][/\ (\/ persons' = <<>>
           \/ Surviving(self, activities', FrameTime(now', WallClock)) = <<>>) =>
              /\ result'.type = "normal"
              /\ result'.confidence = 0
              /\ ~result'.is_abnormal
       /\ result'.type \in ActivityTypes
       /\ result'.severity = SeverityOf(result'.type)
       /\ result'.is_abnormal =
              (result'.type \in {"running", "fighting", "falling", "loitering"})]_vars

\* a frame formed candidates of which none survived and returned 'normal',
\* after an earlier frame of the stream had returned an alert
C30_Witness ==
    /\ Len(log) >= 2
    /\ activities # <<>>
    /\ result.type = "normal"
    /\ result.confidence = 0
    /\ \E k \in 1..Len(log) : log[k].type # "normal"

\* the running rule fired for some track of the last frame
RunningRuleFired ==
    \E idx \in 1..Len(track_map) :
        _check_running(self.rules, self.tracker, track_map[idx][2], persons, idx).ok

\* C31: with no sequence model loaded, a frame returns 'falling', 'fighting'
\* or 'running' only if the single-frame rule of that type produced a
\* candidate on that same frame, never from stored votes alone with a
\* default confidence; a frame whose persons are all far apart never returns
\* 'fighting'
C31_AlertOnlyFromSameFrameRule ==
    (Len(log) > 0 /\ ~self._lstm_model) =>
        /\ result.type = "falling" => LastCall.fallen > 0
        /\ result.type = "fighting" => _check_fighting(self.rules, persons).ok
        /\ result.type = "running" => RunningRuleFired

C33_EmptyFrameChangesNothing ==
    [][persons' = <<>> => self' = self]_vars

\* an empty frame was classified while the tracker held a track older than
\* stale_timeout and a vote window held a vote, and both are still there
C33_Witness ==
    /\ Len(log) >= 2
    /\ persons = <<>>
    /\ LastCall.n = 0
    /\ \E tid \in DOMAIN self.tracker.last_seen :
           /\ LastCall.time - self.tracker.last_seen[tid] > stale_timeout
           /\ tid \in DOMAIN self.tracker.tracks
           /\ VotesOf(self._falling_votes, tid) # <<>>

\* every two consecutive samples of the track's history are less than
\* loiter_duration / (max_history - 1) apart
SamplesClose(tid) ==
    \A k \in 2..Len(self.tracker.tracks[tid]) :
        (self.tracker.tracks[tid][k][3] - self.tracker.tracks[tid][k - 1][3])
            * (self.tracker.max_history - 1) < self.rules.loiter_duration

\* C34 (as stated): if every two consecutive frames are less than
\* loiter_duration / (max_history - 1) apart in time, get_track_duration
\* never reaches loiter_duration and classify never returns 'loitering'
C34_CloseFramesNeverLoiter ==
    LoiterFrameGap * (self.tracker.max_history - 1) < self.rules.loiter_duration =>
        /\ result.type # "loitering"
        /\ \A tid \in DOMAIN self.tracker.tracks :
               get_track_duration(self.tracker, tid) < self.rules.loiter_duration

\* C34 (amended): a track whose consecutive history samples are less than
\* loiter_duration / (max_history - 1) apart has a duration below
\* loiter_duration and yields no loitering candidate, however long the
\* stream; a 'loitering' result comes from a track with a wider gap between
\* two samples
C34_CloseSamplesNeverLoiter ==
    /\ \A tid \in DOMAIN self.tracker.tracks :
           SamplesClose(tid) =>
               /\ get_track_duration(self.tracker, tid) < self.rules.loiter_duration
               /\ ~_check_loitering(self.rules, self.tracker, tid).ok
    /\ result.type = "loitering" =>
           \E k \in 1..Len(track_map) : ~SamplesClose(track_map[k][2])

\* the stream is longer than the history window, the history is full and
\* its samples are one frame apart, and the duration stays below
\* loiter_duration
C34_Witness ==
    /\ now > self.tracker.max_history
    /\ persons # <<>>
    /\ \E tid \in DOMAIN self.tracker.tracks :
           /\ Len(self.tracker.tracks[tid]) = self.tracker.max_history
           /\ SamplesClose(tid)
           /\ get_track_duration(self.tracker, tid) = self.tracker.max_history - 1
    /\ result.type = "normal"

\* C35: classify uses the timestamp the caller supplied as the frame time
\* for tracking, velocity and cooldown, for every supplied value, 0.0
\* included
C35_SuppliedTimestampIsFrameTime ==
    (Len(log) > 0 /\ persons # <<>>) =>
        /\ self._prev_time = now
        /\ \A k \in 1..Len(track_map) :
               self.tracker.last_seen[track_map[k][2]] = now

\* the pairs (i, j), i < j, of the last frame of which a person has no box,
\* whose hips are closer than 0.3 x fighting_proximity and of which a wrist
\* is within striking distance of the other's torso
BoxlessStrikingPairs ==
    {p \in (1..Len(persons)) \X (1..Len(persons)) :
        /\ p[1] < p[2]
        /\ persons[p[1]].bbox = NoBox \/ persons[p[2]].bbox = NoBox
        /\ CloserThan(DistSq(CentroidOf(persons[p[1]]), CentroidOf(persons[p[2]])),
                      self.rules.fighting_proximity, 3)
        /\ WristBodyClose(self.rules, persons[p[1]], persons[p[2]])}

\* C36: when a person of a pair has no bounding box, _check_fighting still
\* yields a fighting candidate if the pair's hips are closer than
\* 0.3 x fighting_proximity and a wrist of one is within striking distance
\* of the other's torso
C36_BoxlessPairStillChecked ==
    (Len(log) > 0 /\ BoxlessStrikingPairs # {}) =>
        _check_fighting(self.rules, persons).ok

\* the torso angle of a pose, in degrees from the vertical
PoseAngle(person) ==
    TorsoAngle(CentroidOf(person)[1]
                   - _midpoint(person.keypoints, KP.left_shoulder, KP.right_shoulder)[1],
               CentroidOf(person)[2]
                   - _midpoint(person.keypoints, KP.left_shoulder, KP.right_shoulder)[2])

\* the steep-angle rule yields no candidate for the pose: the angle is not
\* above falling_angle, or the scaled confidence is below
\* falling_min_confidence
SteepRuleSilent(rules, person) ==
    \/ PoseAngle(person) <= rules.falling_angle
    \/ (PoseAngle(person) - rules.falling_angle) * 10000
           < rules.falling_min_confidence * (90 - rules.falling_angle)

\* the conditions of the hip-below-knee rule: tilt above
\* falling_hip_angle_req, hips more than falling_hip_offset below the knees,
\* no aspect-ratio veto (and reliable keypoints)
HipRuleApplies(rules, person) ==
    /\ \A i \in {KP.left_shoulder, KP.right_shoulder, KP.left_hip,
                 KP.right_hip, KP.left_knee, KP.right_knee} :
           person.confidences[i] >= rules.min_keypoint_confidence
    /\ PoseAngle(person) > rules.falling_hip_angle_req
    /\ CentroidOf(person)[2] >
           _midpoint(person.keypoints, KP.left_knee, KP.right_knee)[2]
               + rules.falling_hip_offset
    /\ ~AspectVeto(rules, person.bbox)

\* C37: whenever the steep-angle rule yields no candidate for a pose, the
\* hip-below-knee rule is still evaluated: a pose with tilt above
\* falling_hip_angle_req, hips more than falling_hip_offset below the knees
\* and no aspect-ratio veto yields a falling candidate
C37_HipRuleIsFallback ==
    \A i \in 1..Len(persons) :
        (SteepRuleSilent(self.rules, persons[i]) /\ HipRuleApplies(self.rules, persons[i])) =>
            _check_falling(self.rules, persons[i]).ok

\* the samples of the track's history, and the seconds elapsed over the
\* last n of them
SamplesOf(tid) == Len(self.tracker.tracks[tid])

ElapsedOver(tid, n) ==
    self.tracker.tracks[tid][SamplesOf(tid)][3]
        - self.tracker.tracks[tid][SamplesOf(tid) - n + 1][3]

\* C38: with no sequence model loaded, get_velocity returns None while a
\* track has fewer than 5 samples or less than 0.05 s elapsed over them, so
\* a running candidate, and the result 'running', appear only when a track
\* of the frame holds at least 5 + running_min_frames - 1 samples
C38_RunningNeedsHistory ==
    ~self._lstm_model =>
        /\ \A tid \in DOMAIN self.tracker.tracks :
               (SamplesOf(tid) < 5 \/ 20 * ElapsedOver(tid, 5) < 1) =>
                   /\ get_velocity(self.tracker, tid, 5) = -1
                   /\ ~_check_running(self.rules, self.tracker, tid, persons, 1).ok
        /\ (CandidatesOf("running") # {} \/ result.type = "running") =>
               \E k \in 1..Len(track_map) :
                   SamplesOf(track_map[k][2]) >= 5 + self.rules.running_min_frames - 1

\* 'running' is returned on the frame at which the track reaches
\* 5 + running_min_frames - 1 samples
C38_Witness ==
    /\ ~self._lstm_model
    /\ result.type = "running"
    /\ \E k \in 1..Len(track_map) :
           SamplesOf(track_map[k][2]) = 5 + self.rules.running_min_frames - 1

\* C39: after every update the track-history map and the last-seen map have
\* the same keys, the last-box map's keys are among them, every history is
\* non-empty, each track's last-seen time is the timestamp of its newest
\* sample, and every track id is smaller than the next id to be allocated
C39_TrackerMapsConsistent ==
    /\ DOMAIN tracker.obj.tracks = DOMAIN tracker.obj.last_seen
    /\ DOMAIN tracker.obj.last_bbox \subseteq DOMAIN tracker.obj.tracks
    /\ \A tid \in DOMAIN tracker.obj.tracks :
           /\ tracker.obj.tracks[tid] # <<>>
           /\ tracker.obj.last_seen[tid] =
                  tracker.obj.tracks[tid][Len(tracker.obj.tracks[tid])][3]
           /\ tid < tracker.obj.next_id

\* after the last update the tracker holds a track with a box and a track
\* without one, and an allocated track has been purged
C39_Witness ==
    /\ tracker.calls = MaxUpdates
    /\ \E tid \in DOMAIN tracker.obj.tracks : tid \in DOMAIN tracker.obj.last_bbox
    /\ \E tid \in DOMAIN tracker.obj.tracks : tid \notin DOMAIN tracker.obj.last_bbox
    /\ \E tid \in 0..(tracker.obj.next_id - 1) : tid \notin DOMAIN tracker.obj.tracks

====
